---- MODULE Spec2Model ----
(***************************************************************************)
(* A model of recall's persistence core: the cosine migration that         *)
(* initChroma runs at start-up (src/src/chroma.ts) and the token budget    *)
(* allocator (src/src/tokens.ts).                                          *)
(*                                                                         *)
(* Every await of the source is one action: the action is the resolution   *)
(* of the awaited call (with either outcome, fulfilled or rejected)        *)
(* together with the synchronous code that follows it up to the next       *)
(* await.                                                                  *)
(***************************************************************************)
EXTENDS Integers, Sequences, FiniteSets, TLC

(***************************************************************************)
(* Bounds of the model.                                                    *)
(***************************************************************************)
\* Largest number of records the memories collection ever holds.
MaxRecs == 3
\* Number of process starts (runs of main) that are explored.
MaxStarts == 2
\* Page size of the migration's read and write loops.  The source uses 500
\* (chroma.ts:83); the model scales it down so that a collection of MaxRecs
\* records is split over more than one batch.
BATCH == 2
\* Largest number of candidates handed to applyTokenBudget.
MaxMems == 3
\* Largest content length, in characters, of a candidate.
MaxContentLen == 5
\* Largest maxTokens handed to applyTokenBudget (the smallest is -1).
MaxBudget == 5

VARIABLES
    \* ---- state shared by all process runs (disk) ----
    marker,         \* the file COSINE_MARKER exists
    coll,           \* the collection COLLECTION_NAME of the vector store
    \* ---- state of the running process ----
    pc,             \* the await initChroma is suspended at
    handle,         \* _collection is not null
    count,          \* migrateToCosinIfNeeded: count
    offset,         \* migrateToCosinIfNeeded: offset of the read loop
    allIds,         \* migrateToCosinIfNeeded: allIds
    allDocs,        \* migrateToCosinIfNeeded: allDocs
    allMetas,       \* migrateToCosinIfNeeded: allMetas
    allEmbeddings,  \* migrateToCosinIfNeeded: allEmbeddings
    idx,            \* migrateToCosinIfNeeded: i of the write loop
    \* ---- history (not read by any guard) ----
    starts,         \* number of process starts so far
    attempted,      \* some run has entered the migration's try block
    orig,           \* the records held when the first attempt began
    pre,            \* the collection as this run's migration found it
    migPath,        \* how this run's migration ended
    migLogged,      \* this run's migration logged "Migration failed"
    storeOps,       \* vector-store calls issued by this run's migration
    \* ---- token budget allocator ----
    memories,       \* the candidate list handed to applyTokenBudget
    calls,          \* number of calls made on it, counted up to 2
    budget1,        \* maxTokens of the call before the last one
    result1,        \* what that call returned
    budget2,        \* maxTokens of the last call
    result2,        \* what the last call returned
    \* ---- main() around initChroma ----
    sup,            \* history: how this process's startChromaServer ended
    session,        \* main's startSession has returned
    \* ---- startChromaServer, in two server processes on one machine ----
    platform,       \* platform(): "win32" or another one
    server,         \* an engine instance answers on CHROMA_PORT
    container,      \* the docker container CONTAINER_NAME
    child,          \* the native sidecar each process spawned
    spc,            \* the await each startChromaServer is suspended at
    polls,          \* i of the poll loop: probes made after the launch
    existing,       \* what docker ps printed was not blank
    launches,       \* history: launch actions each call issued
    first,          \* history: outcome of each call's first probe
    \* ---- session.ts, the sessions collection, saveMemory ----
    sessionId,      \* _sessionId; "" is null
    memoryCount,    \* _memoryCount
    projectsSeen,   \* _projectsSeen, in insertion order
    typesSeen,      \* _typesSeen, in insertion order
    sessions,       \* the records of the sessions collection
    memStore,       \* the records of the memories collection
    now,            \* the clock new Date() reads
    mainPc,         \* the await main (startSession, endSession) is at
    pending,        \* metadata of the upsert or update in flight
    stats,          \* endSession: const stats = getSessionStats()
    startTime,      \* endSession: let startTime
    saves,          \* the saveMemory calls: await, captured id, arguments
    activities,     \* history: the trackSave calls, in order
    sesWrites,      \* history: who wrote to the sessions collection
    started,        \* history: the record startSession wrote
    callLen,        \* history: activities recorded when endSession began
    issueLen,       \* history: activities recorded when update was issued
    tagged,         \* history: upserts of saveMemory that stored a session id
    getOk,          \* history: how endSession's read-back ended
    \* ---- the memories collection as the tools and the hook see it ----
    store,          \* its records, in storage order
    \* ---- saveToChroma of hooks/post-tool-use.ts, in two hook runs ----
    hpc,            \* the await each run is at
    hcontent,       \* content
    hemb,           \* embedding
    hdup,           \* what isDuplicate returned
    hquery,         \* history: how the nearest-neighbour query ended
    hseen,          \* history: ids stored when the check was issued
    hanswered,      \* history: ids stored when the check was answered
    htrace,         \* history: the calls each run made, in order
    \* ---- the call-tool dispatcher and updateMemory, in two requests ----
    serving,        \* the server process is up
    upc,            \* the await each request is at
    uname,          \* request.params.name
    uargs,          \* request.params.arguments
    ucur,           \* updateMemory: what its get returned
    ures,           \* what the dispatcher returned
    uwrites,        \* history: update calls each request got applied
    \* ---- compactMemories, in the same two requests ----
    cpc,            \* the await each request is at
    cargs,          \* args of the call
    ccutoff,        \* cutoffDate
    ctotal,         \* totalCount
    cfetched,       \* autoMems, the records the filtered get returned
    ctodel,         \* toDelete
    cidx,           \* i of the delete loop
    crep,           \* the report returned
    \* ---- searchMemory and getContext, one request ----
    qpc,            \* the await the request is at
    qtool,          \* the tool called
    qargs,          \* args of the call
    qcands,         \* what queryMemories returned
    qout,           \* the memories the tool put in its answer
    \* ---- the SessionStart hook, one run ----
    xpc,            \* the await main is at
    xproject,       \* project, from the cwd on stdin
    xtotal,         \* total
    xmems,          \* memories of getRecentMemories
    xproj,          \* history: what the project-scoped fetch yielded
    xsupp,          \* history: the global fetch was issued
    xout,           \* what getRecentMemories returned
    \* ---- initChroma called twice in one process ----
    iserver,        \* the engine answers the heartbeat ("up") or not
    imarker,        \* the file COSINE_MARKER exists
    icoll,          \* the collection COLLECTION_NAME
    igen,           \* which creation of the collection icoll is
    icollection,    \* _collection
    ipc,            \* per call: the await it is at
    icol,           \* per call: the creation col / newCol refers to
    icount,         \* per call: count
    ioff,           \* per call: offset of the read loop
    iall,           \* per call: the records in allIds, allDocs, ...
    iidx,           \* per call: i of the write loop
    iret,           \* per call: the handle returned
    ilaunched,      \* history, per call: sidecars spawned
    ideleted        \* history, per call: deleteCollection of line 102 done

migVars == <<marker, coll, pc, handle, count, offset, allIds, allDocs, allMetas,
             allEmbeddings, idx, starts, attempted, orig, pre, migPath,
             migLogged, storeOps>>
tokVars == <<memories, calls, budget1, result1, budget2, result2>>
supVars == <<platform, server, container, child, spc, polls, existing,
             launches, first>>
mainVars == <<sup, session>>
sesVars == <<sessionId, memoryCount, projectsSeen, typesSeen, sessions,
             memStore, now, mainPc, pending, stats, startTime, saves,
             activities, sesWrites, started, callLen, issueLen, tagged,
             getOk>>
dupVars == <<hpc, hcontent, hemb, hdup, hquery, hseen, hanswered, htrace>>
updVars == <<serving, upc, uname, uargs, ucur, ures, uwrites>>
cmpVars == <<cpc, cargs, ccutoff, ctotal, cfetched, ctodel, cidx, crep>>
qryVars == <<qpc, qtool, qargs, qcands, qout>>
ctxVars == <<xpc, xproject, xtotal, xmems, xproj, xsupp, xout>>
iniVars == <<iserver, imarker, icoll, igen, icollection, ipc, icol, icount,
             ioff, iall, iidx, iret, ilaunched, ideleted>>
vars == <<migVars, mainVars, tokVars, supVars, sesVars, store, dupVars,
          updVars, cmpVars, qryVars, ctxVars, iniVars>>
\* What the actions of one part leave alone.
nonMigVars == <<tokVars, supVars, sesVars, store, dupVars, updVars,
               cmpVars, qryVars, ctxVars, iniVars>>
nonTokVars == <<migVars, mainVars, supVars, sesVars, store, dupVars, updVars,
               cmpVars, qryVars, ctxVars, iniVars>>
nonSupVars == <<migVars, mainVars, tokVars, sesVars, store, dupVars, updVars,
               cmpVars, qryVars, ctxVars, iniVars>>
nonSesVars == <<migVars, mainVars, tokVars, supVars, store, dupVars, updVars,
               cmpVars, qryVars, ctxVars, iniVars>>
nonDupVars == <<migVars, mainVars, tokVars, supVars, sesVars, updVars,
               cmpVars, qryVars, ctxVars, iniVars>>
nonUpdVars == <<migVars, mainVars, tokVars, supVars, sesVars, dupVars,
               cmpVars, qryVars, ctxVars, iniVars>>
nonCmpVars == <<migVars, mainVars, tokVars, supVars, sesVars, dupVars,
               updVars, qryVars, ctxVars, iniVars>>
nonQryVars == <<migVars, mainVars, tokVars, supVars, sesVars, dupVars,
               updVars, cmpVars, ctxVars, iniVars>>
nonCtxVars == <<migVars, mainVars, tokVars, supVars, sesVars, dupVars,
               updVars, cmpVars, qryVars, iniVars>>
nonIniVars == <<migVars, mainVars, tokVars, supVars, sesVars, store, dupVars,
               updVars, cmpVars, qryVars, ctxVars>>

(***************************************************************************)
(* Helpers.                                                                *)
(***************************************************************************)
Range(s) == {s[k] : k \in 1..Len(s)}

Min(a, b) == IF a <= b THEN a ELSE b

\* Array.prototype.slice(lo, hi) with 0-based lo and exclusive hi.
Slice(s, lo, hi) == SubSeq(s, lo + 1, Min(hi, Len(s)))

(***************************************************************************)
(* The vector store (the chromadb collaborator).                           *)
(***************************************************************************)
Docs == {"a", "b"}

\* The embedding provider: what the store computes for a document that is
\* upserted without an embedding.
Embed(doc) == IF doc = "a" THEN 0 ELSE 1

Absent == [exists |-> FALSE, space |-> "none", recs |-> <<>>]

\* Insert-or-replace of one record by id, keeping the storage order.
UpsertOne(recs, r) ==
    IF \E k \in 1..Len(recs) : recs[k].id = r.id
    THEN [k \in 1..Len(recs) |-> IF recs[k].id = r.id THEN r ELSE recs[k]]
    ELSE Append(recs, r)

RECURSIVE UpsertAll(_, _)
UpsertAll(recs, batch) ==
    IF batch = <<>> THEN recs
    ELSE UpsertAll(UpsertOne(recs, Head(batch)), Tail(batch))

\* collection.upsert({ids, documents, metadatas, embeddings}); embeddings is
\* "none" when the caller passes no embeddings, and the store then asks the
\* embedding provider.
ChromaUpsert(recs, ids, docs, metas, embs) ==
    UpsertAll(recs,
        [k \in 1..Len(ids) |->
            [id |-> ids[k], doc |-> docs[k], meta |-> metas[k],
             emb |-> IF embs = "none" THEN Embed(docs[k]) ELSE embs[k]]])

\* client.getOrCreateCollection({name, metadata: {"hnsw:space": space}}): an
\* existing collection is returned as it is, whatever its metric.
GetOrCreate(c, space) ==
    IF c.exists THEN c ELSE [exists |-> TRUE, space |-> space, recs |-> <<>>]


(***************************************************************************)
(* initChroma and migrateToCosinIfNeeded (src/src/chroma.ts).              *)
(***************************************************************************)
\* The awaits inside the try block of migrateToCosinIfNeeded.
MigBody == {"migList", "migGetCol", "migCount", "migDelEmpty", "migRead",
            "migDelete", "migCreate", "migUpsert"}

Profiles == { [doc |-> "a", meta |-> "manual", emb |-> 0],
              [doc |-> "b", meta |-> "hook-auto", emb |-> 0] }

\* The collections a data directory written by the previous release can
\* hold: none, or an L2 collection of 0..MaxRecs records with ids 1..n.
InitialColls ==
    {Absent} \cup
    UNION { { [exists |-> TRUE, space |-> "l2",
               recs |-> [k \in 1..n |->
                           [id |-> k, doc |-> f[k].doc, meta |-> f[k].meta,
                            emb |-> f[k].emb]]] :
              f \in [1..n -> Profiles] } : n \in 0..MaxRecs }

\* Module state of a process that is not running.
NoProcess ==
    /\ handle = FALSE
    /\ count = 0
    /\ offset = 0
    /\ allIds = <<>>
    /\ allDocs = <<>>
    /\ allMetas = <<>>
    /\ allEmbeddings = <<>>
    /\ idx = 0
    /\ pre = Absent
    /\ migPath = "none"
    /\ migLogged = FALSE
    /\ storeOps = 0
    /\ sup = "none"
    /\ session = FALSE

\* How many saveMemory calls a run makes.
MaxSaves == 3

\* The statistics of a run in which nothing was recorded.
NoStats == [memoryCount |-> 0, projects |-> <<>>, typesSeen |-> <<>>]

\* A saveMemory call that has not been made.
NoSave == [st |-> "idle", sid |-> "", project |-> "", type |-> ""]

\* No session module loaded, both collections empty.
SesIdle ==
    /\ sessionId = ""
    /\ memoryCount = 0
    /\ projectsSeen = <<>>
    /\ typesSeen = <<>>
    /\ sessions = <<>>
    /\ memStore = {}
    /\ now = 1
    /\ mainPc = "init"
    /\ pending = <<>>
    /\ stats = NoStats
    /\ startTime = 0
    /\ saves = [k \in 1..MaxSaves |-> NoSave]
    /\ activities = <<>>
    /\ sesWrites = <<>>
    /\ started = <<>>
    /\ callLen = 0
    /\ issueLen = 0
    /\ tagged = 0
    /\ getOk = "none"

\* The tool requests in flight at a time: two.
Requests == {1, 2}

\* Arguments of a request that was not made; "undefined" is a property
\* that is not supplied.
NoArgs == [id |-> 0, content |-> "undefined", type |-> "undefined",
           project |-> "undefined", tags |-> "undefined"]

\* The server is up and no request has come in.
UpdIdle ==
    /\ serving = TRUE
    /\ upc = [c \in Requests |-> "idle"]
    /\ uname = [c \in Requests |-> ""]
    /\ uargs = [c \in Requests |-> NoArgs]
    /\ ucur = [c \in Requests |-> <<>>]
    /\ ures = [c \in Requests |-> "none"]
    /\ uwrites = [c \in Requests |-> 0]

\* Arguments of a compact_memories call that was not made (a property is
\* <<v>> when it is supplied with value v and <<>> when it is not), and
\* the report of a call that has not returned.
NoCompactArgs == [max_age_days |-> <<>>, dry_run |-> <<>>]
NoReport == [deleted |-> 0, old_removed |-> 0, duplicates_removed |-> 0,
             dry_run |-> FALSE, auto_captured_scanned |-> 0,
             total_memories_remaining |-> 0]

\* No compact_memories request has come in.
CmpIdle ==
    /\ cpc = [c \in Requests |-> "idle"]
    /\ cargs = [c \in Requests |-> NoCompactArgs]
    /\ ccutoff = [c \in Requests |-> 0]
    /\ ctotal = [c \in Requests |-> 0]
    /\ cfetched = [c \in Requests |-> <<>>]
    /\ ctodel = [c \in Requests |-> <<>>]
    /\ cidx = [c \in Requests |-> 0]
    /\ crep = [c \in Requests |-> NoReport]

\* Arguments of a search that was not made.
NoQueryArgs == [query |-> "", limit |-> <<>>, type |-> <<>>,
                max_tokens |-> <<>>]

\* No search_memory or get_context request has come in.
QryIdle ==
    /\ qpc = "idle"
    /\ qtool = ""
    /\ qargs = NoQueryArgs
    /\ qcands = <<>>
    /\ qout = [results |-> <<>>, truncated |-> "absent"]

\* No SessionStart hook has run.
CtxIdle ==
    /\ xpc = "idle"
    /\ xproject = ""
    /\ xtotal = 0
    /\ xmems = <<>>
    /\ xproj = <<>>
    /\ xsupp = FALSE
    /\ xout = <<>>

\* The calls of initChroma that one process makes: two.
Callers == {1, 2}

\* No collection handle.
NoHandle == [obj |-> 0, gen |-> 0]

\* What a call of initChroma that was not made holds.
NoCalls ==
    /\ icollection = NoHandle
    /\ ipc = [c \in Callers |-> "idle"]
    /\ icol = [c \in Callers |-> 0]
    /\ icount = [c \in Callers |-> 0]
    /\ ioff = [c \in Callers |-> 0]
    /\ iall = [c \in Callers |-> <<>>]
    /\ iidx = [c \in Callers |-> 0]
    /\ iret = [c \in Callers |-> NoHandle]
    /\ ilaunched = [c \in Callers |-> 0]
    /\ ideleted = [c \in Callers |-> 0]

\* No initChroma call, no engine, an empty data directory.
IniIdle ==
    /\ iserver = "down"
    /\ imarker = FALSE
    /\ icoll = [exists |-> FALSE, space |-> "none", recs |-> <<>>]
    /\ igen = 0
    /\ NoCalls

\* The hook runs that share the collection: two.
Hooks == {1, 2}

\* No hook run, and nothing in the collection.
DupIdle ==
    /\ store = <<>>
    /\ hpc = [h \in Hooks |-> "idle"]
    /\ hcontent = [h \in Hooks |-> ""]
    /\ hemb = [h \in Hooks |-> 0]
    /\ hdup = [h \in Hooks |-> FALSE]
    /\ hquery = [h \in Hooks |-> "none"]
    /\ hseen = [h \in Hooks |-> {}]
    /\ hanswered = [h \in Hooks |-> {}]
    /\ htrace = [h \in Hooks |-> <<>>]

\* The server processes that share the machine: two.
Procs == {1, 2}

\* No process has called startChromaServer, and no engine runs.
SupIdle ==
    /\ platform = "other"
    /\ server = "down"
    /\ container = "none"
    /\ child = [p \in Procs |-> "none"]
    /\ spc = [p \in Procs |-> "idle"]
    /\ polls = [p \in Procs |-> 0]
    /\ existing = [p \in Procs |-> FALSE]
    /\ launches = [p \in Procs |-> 0]
    /\ first = [p \in Procs |-> "none"]

TokIdle ==
    /\ memories = <<>>
    /\ calls = 0
    /\ budget1 = 0
    /\ result1 = [selected |-> <<>>, tokensUsed |-> 0]
    /\ budget2 = 0
    /\ result2 = [selected |-> <<>>, tokensUsed |-> 0]

MigIdle ==
    /\ marker = FALSE
    /\ coll = Absent
    /\ pc = "stopped"
    /\ starts = 0
    /\ attempted = FALSE
    /\ orig = {}
    /\ NoProcess

InitMig ==
    /\ marker = FALSE
    /\ coll \in InitialColls
    /\ pc = "stopped"
    /\ starts = 0
    /\ attempted = FALSE
    /\ orig = {}
    /\ NoProcess
    /\ TokIdle
    /\ SupIdle
    /\ SesIdle
    /\ DupIdle
    /\ UpdIdle
    /\ CmpIdle
    /\ QryIdle
    /\ CtxIdle
    /\ IniIdle

locals == <<count, offset, allIds, allDocs, allMetas, allEmbeddings, idx>>
history == <<starts, attempted, orig, pre>>

\* The marker check left out: every start takes the migration path.
MarkerNeverSeen == FALSE

\* existsSync(COSINE_MARKER)
MarkerExists == marker

\* A catch block that logs and rethrows: the error leaves initChroma.
MigCatchRethrow ==
    /\ pc' = "crashed"
    /\ migLogged' = TRUE
    /\ migPath' = "failed"

\* The catch block of migrateToCosinIfNeeded: log, swallow, return to
\* initChroma, which goes on to its own getOrCreateCollection.
MigCatch ==
    /\ pc' = "initGoc"
    /\ migLogged' = TRUE
    /\ migPath' = "failed"

\* writeFileSync(COSINE_MARKER, ...) followed by the return (or the end of
\* the try block); wok is whether the write succeeds.
WriteMarker(wok, path) ==
    IF wok
    THEN /\ marker' = TRUE
         /\ pc' = "initGoc"
         /\ migPath' = path
         /\ migLogged' = migLogged
    ELSE /\ marker' = marker
         /\ MigCatch

\* initChroma creating the collection without the metadata argument: the
\* store's default metric.
InitGocDefaultSpace == "l2"

\* The "hnsw:space" initChroma asks for.
InitGocSpace == "cosine"

\* The "hnsw:space" the migration asks for.
MigCreateSpace == "cosine"

\* The marker write placed inside the write loop: done after one batch.
UpsertDoneAfterFirst(i) == TRUE

\* Condition of the write loop, negated: every batch has been upserted.
UpsertDone(i) == ~(i < Len(allIds))

\* A read loop left after its first batch.
ReadDoneAfterFirst(off, cnt) == TRUE

\* Condition of the read loop, negated: every batch has been read.
ReadDone(off, cnt) == ~(off < cnt)

\* The upsert of the write loop with the documents of the first batch in
\* every batch.
UpsertBatchMisaligned(recs, i, end) ==
    ChromaUpsert(recs, Slice(allIds, i, end), Slice(allDocs, 0, end - i),
                 Slice(allMetas, i, end), Slice(allEmbeddings, i, end))

\* The upsert of the write loop without the embeddings argument: the store
\* embeds every document again.
UpsertBatchReembed(recs, i, end) ==
    ChromaUpsert(recs, Slice(allIds, i, end), Slice(allDocs, i, end),
                 Slice(allMetas, i, end), "none")

\* The upsert of the write loop: the slices [i, end) of the four arrays.
UpsertBatch(recs, i, end) ==
    ChromaUpsert(recs, Slice(allIds, i, end), Slice(allDocs, i, end),
                 Slice(allMetas, i, end), Slice(allEmbeddings, i, end))

\* main() begins: a new process, module state freshly initialised.
ProcessStart ==
    /\ pc = "stopped"
    /\ starts < MaxStarts
    /\ starts' = starts + 1
    /\ pc' = "startServer"
    /\ UNCHANGED <<marker, coll, handle, locals, attempted, orig, pre,
                   migPath, migLogged, storeOps, mainVars, nonMigVars>>

\* A failure of startChromaServer caught and ignored by initChroma.
StartServerFailureIgnored(ok) == "migCheck"

\* Where initChroma is after await startChromaServer(): at the call of the
\* migration, or out of main through the rejection.
AfterStartServer(ok) == IF ok THEN "migCheck" ELSE "crashed"

\* await startChromaServer(): returns (ready) or throws.
InitStartServer ==
    /\ pc = "startServer"
    /\ \E ok \in BOOLEAN :
          /\ sup' = IF ok THEN "ready" ELSE "failed"
          /\ pc' = AfterStartServer(ok)
    /\ UNCHANGED <<marker, coll, handle, locals, history, migPath, migLogged,
                   storeOps, session, nonMigVars>>

\* migrateToCosinIfNeeded, line 58, then the call of listCollections.
MigCheck ==
    /\ pc = "migCheck"
    /\ IF MarkerExists
       THEN /\ pc' = "initGoc"
            /\ migPath' = "skip"
            /\ UNCHANGED <<attempted, orig, pre, storeOps>>
       ELSE /\ pc' = "migList"
            /\ migPath' = migPath
            /\ attempted' = TRUE
            /\ orig' = IF attempted THEN orig ELSE Range(coll.recs)
            /\ pre' = coll
            /\ storeOps' = storeOps + 1
    /\ UNCHANGED <<marker, coll, handle, locals, starts, migLogged, mainVars, nonMigVars>>

\* await client.listCollections(), lines 61-69.
MigList ==
    /\ pc = "migList"
    /\ \E ok \in BOOLEAN, wok \in BOOLEAN :
          IF ~ok THEN MigCatch /\ UNCHANGED <<marker, storeOps>>
          ELSE IF ~coll.exists
               THEN WriteMarker(wok, "absent") /\ UNCHANGED storeOps
               ELSE /\ pc' = "migGetCol"
                    /\ storeOps' = storeOps + 1
                    /\ UNCHANGED <<marker, migPath, migLogged>>
    /\ UNCHANGED <<coll, handle, locals, history, mainVars, nonMigVars>>

\* await client.getCollection(...), line 71.
MigGetCol ==
    /\ pc = "migGetCol"
    /\ \E ok \in BOOLEAN :
          IF ~ok THEN MigCatch /\ UNCHANGED storeOps
          ELSE /\ pc' = "migCount"
               /\ storeOps' = storeOps + 1
               /\ UNCHANGED <<migPath, migLogged>>
    /\ UNCHANGED <<marker, coll, handle, locals, history, mainVars, nonMigVars>>

\* await col.count(), lines 72-90: the empty case calls deleteCollection,
\* otherwise the read loop issues its first get.
MigCount ==
    /\ pc = "migCount"
    /\ \E ok \in BOOLEAN :
          IF ~ok THEN MigCatch /\ UNCHANGED <<count, storeOps>>
          ELSE /\ count' = Len(coll.recs)
               /\ pc' = IF count' = 0 THEN "migDelEmpty" ELSE "migRead"
               /\ storeOps' = storeOps + 1
               /\ UNCHANGED <<migPath, migLogged>>
    /\ UNCHANGED <<marker, coll, handle, offset, allIds, allDocs, allMetas,
                   allEmbeddings, idx, history, mainVars, nonMigVars>>

\* await client.deleteCollection(...) of the empty case, lines 75-77.
MigDelEmpty ==
    /\ pc = "migDelEmpty"
    /\ \E ok \in BOOLEAN, wok \in BOOLEAN :
          IF ~ok THEN MigCatch /\ UNCHANGED <<marker, coll>>
          ELSE /\ coll' = Absent
               /\ WriteMarker(wok, "empty")
    /\ UNCHANGED <<handle, locals, history, storeOps, mainVars, nonMigVars>>

\* await col.get({limit: BATCH, offset, include}), lines 89-102.
MigRead ==
    /\ pc = "migRead"
    /\ \E ok \in BOOLEAN :
          IF ~ok
          THEN /\ MigCatch
               /\ UNCHANGED <<offset, allIds, allDocs, allMetas,
                              allEmbeddings, storeOps>>
          ELSE LET batch == Slice(coll.recs, offset, offset + BATCH) IN
               /\ allIds' = allIds \o [k \in 1..Len(batch) |-> batch[k].id]
               /\ allDocs' = allDocs \o [k \in 1..Len(batch) |-> batch[k].doc]
               /\ allMetas' = allMetas \o [k \in 1..Len(batch) |-> batch[k].meta]
               /\ allEmbeddings' =
                     allEmbeddings \o [k \in 1..Len(batch) |-> batch[k].emb]
               /\ offset' = offset + BATCH
               /\ pc' = IF ReadDone(offset', count) THEN "migDelete"
                        ELSE "migRead"
               /\ storeOps' = storeOps + 1
               /\ UNCHANGED <<migPath, migLogged>>
    /\ UNCHANGED <<marker, coll, handle, count, idx, history, mainVars, nonMigVars>>

\* await client.deleteCollection(...), lines 102-105.
MigDelete ==
    /\ pc = "migDelete"
    /\ \E ok \in BOOLEAN :
          IF ~ok THEN MigCatch /\ UNCHANGED <<coll, storeOps>>
          ELSE /\ coll' = Absent
               /\ pc' = "migCreate"
               /\ storeOps' = storeOps + 1
               /\ UNCHANGED <<migPath, migLogged>>
    /\ UNCHANGED <<marker, handle, locals, history, mainVars, nonMigVars>>

\* await client.getOrCreateCollection(...), lines 105-114 (and 122-123 when
\* nothing was read).
MigCreate ==
    /\ pc = "migCreate"
    /\ \E ok \in BOOLEAN, wok \in BOOLEAN :
          IF ~ok THEN MigCatch /\ UNCHANGED <<marker, coll, idx, storeOps>>
          ELSE /\ coll' = GetOrCreate(coll, MigCreateSpace)
               /\ idx' = 0
               /\ IF UpsertDone(0)
                  THEN WriteMarker(wok, "full") /\ UNCHANGED storeOps
                  ELSE /\ pc' = "migUpsert"
                       /\ storeOps' = storeOps + 1
                       /\ UNCHANGED <<marker, migPath, migLogged>>
    /\ UNCHANGED <<handle, count, offset, allIds, allDocs, allMetas,
                   allEmbeddings, history, mainVars, nonMigVars>>

\* await newCol.upsert(...), lines 112-123.
MigUpsert ==
    /\ pc = "migUpsert"
    /\ \E ok \in BOOLEAN, wok \in BOOLEAN :
          IF ~ok THEN MigCatch /\ UNCHANGED <<marker, coll, idx, storeOps>>
          ELSE LET end == Min(idx + BATCH, Len(allIds)) IN
               /\ coll' = [coll EXCEPT !.recs = UpsertBatch(coll.recs, idx, end)]
               /\ idx' = idx + BATCH
               /\ IF UpsertDone(idx')
                  THEN WriteMarker(wok, "full") /\ UNCHANGED storeOps
                  ELSE /\ pc' = "migUpsert"
                       /\ storeOps' = storeOps + 1
                       /\ UNCHANGED <<marker, migPath, migLogged>>
    /\ UNCHANGED <<handle, count, offset, allIds, allDocs, allMetas,
                   allEmbeddings, history, mainVars, nonMigVars>>

\* await client.getOrCreateCollection(...) of initChroma, lines 144-150; a
\* rejection leaves initChroma and main, whose catch exits the process.
InitGoc ==
    /\ pc = "initGoc"
    /\ \E ok \in BOOLEAN :
          IF ~ok THEN pc' = "crashed" /\ UNCHANGED <<coll, handle>>
          ELSE /\ coll' = GetOrCreate(coll, InitGocSpace)
               /\ handle' = TRUE
               /\ pc' = "ready"
    /\ UNCHANGED <<marker, locals, history, migPath, migLogged, storeOps,
                   mainVars, nonMigVars>>

\* main after initChroma: await startSession(sessionId).  A rejection
\* leaves main and ends in process.exit(1).
MainStartSession ==
    /\ pc = "ready"
    /\ ~session
    /\ \E ok \in BOOLEAN :
          IF ok THEN session' = TRUE /\ pc' = pc
          ELSE session' = session /\ pc' = "crashed"
    /\ UNCHANGED <<marker, coll, handle, locals, history, migPath, migLogged,
                   storeOps, sup, nonMigVars>>

\* saveMemory (src/src/tools.ts): an upsert of one new document, without an
\* embedding, through the handle.
SaveMemory ==
    /\ pc = "ready"
    /\ handle
    /\ coll.exists
    /\ \E id \in 1..MaxRecs, content \in Docs :
          /\ \A k \in 1..Len(coll.recs) : coll.recs[k].id # id
          /\ \A j \in 1..(id - 1) : \E k \in 1..Len(coll.recs) : coll.recs[k].id = j
          /\ coll' = [coll EXCEPT !.recs =
                        ChromaUpsert(coll.recs, <<id>>, <<content>>,
                                     <<"manual">>, "none")]
    /\ UNCHANGED <<marker, pc, handle, locals, history, migPath, migLogged,
                   storeOps, mainVars, nonMigVars>>

\* The process ends (process.exit(1) in main's catch after initChroma threw,
\* or the server is shut down after initChroma returned): its module state
\* is gone, the disk stays.
ProcessExit ==
    /\ pc \in {"ready", "crashed"}
    /\ pc' = "stopped"
    /\ handle' = FALSE
    /\ count' = 0
    /\ offset' = 0
    /\ allIds' = <<>>
    /\ allDocs' = <<>>
    /\ allMetas' = <<>>
    /\ allEmbeddings' = <<>>
    /\ idx' = 0
    /\ pre' = Absent
    /\ migPath' = "none"
    /\ migLogged' = FALSE
    /\ storeOps' = 0
    /\ sup' = "none"
    /\ session' = FALSE
    /\ UNCHANGED <<marker, coll, starts, attempted, orig, nonMigVars>>

NextMig ==
    \/ ProcessStart
    \/ InitStartServer
    \/ MigCheck
    \/ MigList
    \/ MigGetCol
    \/ MigCount
    \/ MigDelEmpty
    \/ MigRead
    \/ MigDelete
    \/ MigCreate
    \/ MigUpsert
    \/ InitGoc
    \/ MainStartSession
    \/ SaveMemory
    \/ ProcessExit

SpecMig == InitMig /\ [][NextMig]_vars


(***************************************************************************)
(* Claims about the migration.                                             *)
(***************************************************************************)
\* The record the migration read at index k of its four arrays.
ReadRecord(k) ==
    [id |-> allIds[k], doc |-> allDocs[k], meta |-> allMetas[k],
     emb |-> allEmbeddings[k]]

\* C1: whatever steps of earlier attempts failed, once the marker is
\* written the collection holds every record (id, document, metadata,
\* embedding) that existed before the first migration attempt.
C1_NoRecordLost == marker => orig \subseteq Range(coll.recs)

\* C2: a run whose migration threw has not written the marker, and when the
\* full path has written it, every record that was read has been upserted
\* into the new collection and every batch has been issued.
C2_MarkerAfterAllBatches ==
    /\ migLogged => ~marker
    /\ migPath = "full" =>
          /\ marker
          /\ ~migLogged
          /\ coll.exists
          /\ ~(idx < Len(allIds))
          /\ \A k \in 1..Len(allIds) : ReadRecord(k) \in Range(coll.recs)

\* C2 witness: the full path wrote the marker after more than one batch.
C2_Witness == migPath = "full" /\ Len(allIds) > BATCH /\ pc = "initGoc"

\* C3: when a migration run in which no step failed returns, the new
\* collection holds exactly the records of the old one, each with the
\* document, metadata and embedding it had, under the cosine metric.
C3_MigrationPreservesRecords ==
    (migPath = "full" /\ pc = "initGoc") =>
        /\ coll.exists
        /\ coll.space = "cosine"
        /\ Len(coll.recs) = Len(pre.recs)
        /\ Range(coll.recs) = Range(pre.recs)

\* C3 witness: a full migration of MaxRecs records, one of them with a
\* stored embedding the provider would not return for its document.
C3_Witness ==
    /\ migPath = "full"
    /\ pc = "initGoc"
    /\ pre.space = "l2"
    /\ Len(pre.recs) = MaxRecs
    /\ \E r \in Range(pre.recs) : r.emb # Embed(r.doc)

\* C4: a call that finds the marker issues no vector-store call and leaves
\* marker and collection as they are, and while the marker exists no run is
\* inside the migration's read-delete-recreate-reinsert sequence.
C4_MarkerMakesNoOp ==
    /\ [](marker => pc \notin MigBody)
    /\ [][(pc = "migCheck" /\ marker) =>
            (pc' = "initGoc" /\ storeOps' = 0 /\ coll' = coll /\ marker')]_vars

\* C4 witness: a later start found the marker of an earlier full migration
\* and went straight on to initChroma's getOrCreateCollection.
C4_Witness ==
    /\ migPath = "skip"
    /\ pc = "initGoc"
    /\ storeOps = 0
    /\ coll.exists
    /\ coll.recs # <<>>

\* C5: every way out of the migration's try block, a rejected store call or
\* a failed marker write included, leads to initChroma's
\* getOrCreateCollection; a failure has been logged by then.
C5_MigrationNeverThrows ==
    [][(pc \in MigBody /\ pc' \notin MigBody) =>
         (pc' = "initGoc" /\ (migLogged' \/ (marker' /\ ~marker)))]_vars

\* C5 witness: the migration failed after the delete and initChroma still
\* returned a handle.
C5_Witness ==
    /\ migLogged
    /\ pc = "ready"
    /\ handle
    /\ pre.recs # <<>>
    /\ coll.recs = <<>>

\* C6: with no collection the migration writes the marker and neither
\* deletes nor creates one; an empty collection is deleted and the marker
\* written; either way the collection exists with the cosine metric when
\* initChroma has returned.
C6_NothingToMigrate ==
    /\ [][(pc = "migList" /\ migPath' = "absent") =>
            (marker' /\ coll' = coll /\ ~coll.exists)]_vars
    /\ [][(pc = "migDelEmpty" /\ migPath' = "empty") =>
            (marker' /\ coll.exists /\ coll.recs = <<>> /\ ~coll'.exists)]_vars
    /\ []((pc = "ready" /\ migPath \in {"absent", "empty"}) =>
            (coll.exists /\ coll.space = "cosine" /\ marker))

\* C6 witness: initChroma returned after the empty-collection path replaced
\* an L2 collection.
C6_Witness ==
    /\ pc = "ready"
    /\ migPath = "empty"
    /\ pre.exists
    /\ pre.space = "l2"
    /\ coll.recs = <<>>


(***************************************************************************)
(* The token budget allocator (src/src/tokens.ts).                         *)
(***************************************************************************)
CHARS_PER_TOKEN == 4

\* A string is a sequence of characters; every character of a stored
\* content is "x", and Ellipsis is the one character U+2026.
Ellipsis == "..."

Text(n) == [k \in 1..n |-> "x"]

\* Math.ceil(text.length / CHARS_PER_TOKEN)
estimateTokens(text) == (Len(text) + CHARS_PER_TOKEN - 1) \div CHARS_PER_TOKEN

\* A ScoredMemory as queryMemories builds it (src/src/tools.ts:98-109): its
\* tokens are the estimate of its content.  The id is the rank.
ScoredMemory(id, content) ==
    [id |-> id, content |-> content, tokens |-> estimateTokens(content)]

CandidateLists ==
    UNION { { [k \in 1..n |-> ScoredMemory(k, Text(f[k]))] :
              f \in [1..n -> 0..MaxContentLen] } : n \in 0..MaxMems }

Budgets == (-1)..MaxBudget

\* selected.unshift(mem): the new item is put in front.
SelectedUnshift(selected, mem) == <<mem>> \o selected

\* selected.push(mem)
SelectedPush(selected, mem) == Append(selected, mem)

\* The condition of the truncation branch without its test of i.
TruncateAnywhere(i, remaining) == remaining > 0

\* The condition of the else-if: i === 0 && remaining > 0.
TruncateHere(i, remaining) == i = 0 /\ remaining > 0

\* The truncated copy with its tokens left as they were.
TruncatedKeepsCost(mem, remaining) ==
    LET charLimit == remaining * CHARS_PER_TOKEN IN
    [mem EXCEPT !.content = Append(Slice(mem.content, 0, charLimit), Ellipsis)]

\* { ...mem, content: mem.content.slice(0, charLimit) + "…", tokens: remaining }
Truncated(mem, remaining) ==
    LET charLimit == remaining * CHARS_PER_TOKEN IN
    [mem EXCEPT !.content = Append(Slice(mem.content, 0, charLimit), Ellipsis),
                !.tokens = remaining]

\* The loop leaving at the first candidate that does not fit.
RECURSIVE BudgetLoopStopsAtMisfit(_, _, _, _)
BudgetLoopStopsAtMisfit(mems, i, selected, remaining) ==
    IF ~(i < Len(mems))
    THEN [selected |-> selected, remaining |-> remaining]
    ELSE LET mem == mems[i + 1] IN
         IF mem.tokens <= remaining
         THEN BudgetLoopStopsAtMisfit(mems, i + 1, SelectedPush(selected, mem),
                                      remaining - mem.tokens)
         ELSE IF TruncateHere(i, remaining)
              THEN [selected |-> SelectedPush(selected, Truncated(mem, remaining)),
                    remaining |-> 0]
              ELSE [selected |-> selected, remaining |-> remaining]

\* The for loop of applyTokenBudget from index i (0-based) on.
RECURSIVE BudgetLoop(_, _, _, _)
BudgetLoop(mems, i, selected, remaining) ==
    IF ~(i < Len(mems))
    THEN [selected |-> selected, remaining |-> remaining]
    ELSE LET mem == mems[i + 1] IN
         IF mem.tokens <= remaining
         THEN BudgetLoop(mems, i + 1, SelectedPush(selected, mem),
                         remaining - mem.tokens)
         ELSE IF TruncateHere(i, remaining)
              THEN [selected |-> SelectedPush(selected, Truncated(mem, remaining)),
                    remaining |-> 0]
              ELSE BudgetLoop(mems, i + 1, selected, remaining)

Reverse(s) == [k \in 1..Len(s) |-> s[Len(s) + 1 - k]]

\* The loop walking the candidates from the last to the first.
applyTokenBudgetFromLast(mems, maxTokens) ==
    LET r == BudgetLoop(Reverse(mems), 0, <<>>, maxTokens) IN
    [selected |-> r.selected, tokensUsed |-> maxTokens - r.remaining]

applyTokenBudget(mems, maxTokens) ==
    LET r == BudgetLoop(mems, 0, <<>>, maxTokens) IN
    [selected |-> r.selected, tokensUsed |-> maxTokens - r.remaining]

\* Some candidate list, and no call made on it yet.
InitTok ==
    /\ memories \in CandidateLists
    /\ calls = 0
    /\ budget1 = 0
    /\ result1 = [selected |-> <<>>, tokensUsed |-> 0]
    /\ budget2 = 0
    /\ result2 = [selected |-> <<>>, tokensUsed |-> 0]
    /\ MigIdle
    /\ SupIdle
    /\ SesIdle
    /\ DupIdle
    /\ UpdIdle
    /\ CmpIdle
    /\ QryIdle
    /\ CtxIdle
    /\ IniIdle

\* A call applyTokenBudget(memories, maxTokens); the state keeps the last
\* two calls on the candidate list.
Allocate ==
    /\ \E maxTokens \in Budgets :
          /\ budget2' = maxTokens
          /\ result2' = applyTokenBudget(memories, maxTokens)
    /\ budget1' = budget2
    /\ result1' = result2
    /\ calls' = Min(calls + 1, 2)
    /\ UNCHANGED <<memories, nonTokVars>>

NextTok == Allocate

SpecTok == InitTok /\ [][NextTok]_vars

(***************************************************************************)
(* Claims about the allocator.                                             *)
(***************************************************************************)
IsPrefix(s, t) == Len(s) <= Len(t) /\ \A k \in 1..Len(s) : s[k] = t[k]

\* The candidates a result holds whole: returned exactly as they were given.
Whole(res) == Range(res.selected) \cap Range(memories)

\* The ids of the candidates a result holds, whole or truncated.
SelectedIds(res) == {res.selected[k].id : k \in 1..Len(res.selected)}

\* A result holds a truncated item.
Truncates(res) == \E k \in 1..Len(res.selected) : res.selected[k] \notin Range(memories)

\* C7 as stated: with a larger budget every candidate that the smaller
\* budget selected whole is selected again.
C7_MonotoneAsStated ==
    (calls = 2 /\ budget1 < budget2) =>
        \A m \in Whole(result1) : m.id \in SelectedIds(result2)

\* C7 amended: with a larger budget every candidate that the smaller budget
\* selected whole and that no skipped candidate precedes in the list is
\* selected whole again.
C7_MonotoneBeforeFirstSkip ==
    (calls = 2 /\ budget1 < budget2) =>
        \A k \in 1..Len(memories) :
            (\A j \in 1..k : memories[j] \in Whole(result1)) =>
                memories[k] \in Whole(result2)

\* C7 witness: the smaller budget selected the first candidate whole,
\* skipped one and selected a later one whole, which the larger budget
\* drops while it keeps the first.
C7_Witness ==
    /\ calls = 2
    /\ budget1 < budget2
    /\ Len(memories) >= 3
    /\ memories[1] \in Whole(result1)
    /\ memories[2] \notin Whole(result1)
    /\ memories[3] \in Whole(result1)
    /\ memories[3].id \notin SelectedIds(result2)
    /\ memories[1] \in Whole(result2)

\* C8 as stated: when neither call truncates, the selection of the smaller
\* budget is a prefix of the selection of the larger one.
C8_PrefixAsStated ==
    (calls = 2 /\ budget1 < budget2 /\ ~Truncates(result1) /\ ~Truncates(result2)) =>
        IsPrefix(result1.selected, result2.selected)

\* C8 amended: when neither call truncates and the smaller budget skipped
\* no candidate ahead of one it selected (its selection is a prefix of the
\* candidate list), its selection is a prefix of the larger budget's.
C8_PrefixWhenNothingSkipped ==
    (/\ calls = 2
     /\ budget1 < budget2
     /\ ~Truncates(result1)
     /\ ~Truncates(result2)
     /\ IsPrefix(result1.selected, memories)) =>
        IsPrefix(result1.selected, result2.selected)

\* C8 witness: two untruncated calls, the smaller one selecting a proper,
\* non-empty prefix of the list that the larger one extends.
C8_Witness ==
    /\ calls = 2
    /\ budget1 < budget2
    /\ ~Truncates(result1)
    /\ ~Truncates(result2)
    /\ IsPrefix(result1.selected, memories)
    /\ 0 < Len(result1.selected)
    /\ Len(result1.selected) < Len(result2.selected)
    /\ Len(result2.selected) < Len(memories)

\* C9: for a non-empty candidate list and maxTokens <= 0 the selection is
\* empty and tokensUsed is 0.
C9_ZeroBudgetEmpty ==
    (calls >= 1 /\ memories # <<>> /\ budget2 <= 0) =>
        (result2.selected = <<>> /\ result2.tokensUsed = 0)

\* C10: when the first candidate costs more than a positive maxTokens the
\* result is that candidate alone, cut to maxTokens * 4 characters plus the
\* marker, with tokens and tokensUsed equal to maxTokens; and no call
\* returns a candidate of index > 0 changed.
C10_TruncationOnlyFirst ==
    /\ (calls >= 1 /\ memories # <<>> /\ budget2 > 0
          /\ memories[1].tokens > budget2) =>
          /\ Len(result2.selected) = 1
          /\ result2.selected[1].id = memories[1].id
          /\ result2.selected[1].content =
                SubSeq(memories[1].content, 1, budget2 * 4) \o <<Ellipsis>>
          /\ Len(result2.selected[1].content) = budget2 * 4 + 1
          /\ result2.selected[1].tokens = budget2
          /\ result2.tokensUsed = budget2
    /\ \A k \in 1..Len(result2.selected) :
          LET m == result2.selected[k] IN
          m.id > 1 => m = memories[m.id]

\* C10 witness: the first candidate was truncated although the second one
\* would have fitted whole.
C10_Witness ==
    /\ calls >= 1
    /\ Len(memories) >= 2
    /\ budget2 > 0
    /\ memories[1].tokens > budget2
    /\ memories[2].tokens <= budget2
    /\ memories[2].tokens > 0
    /\ Len(result2.selected) = 1


RECURSIVE SumTokens(_)
SumTokens(sel) == IF sel = <<>> THEN 0 ELSE Head(sel).tokens + SumTokens(Tail(sel))

\* The cost of the candidates ahead of index k that a result holds whole.
RECURSIVE SpentBefore(_, _)
SpentBefore(k, res) ==
    IF k <= 1 THEN 0
    ELSE SpentBefore(k - 1, res)
         + (IF memories[k - 1] \in Whole(res) THEN memories[k - 1].tokens ELSE 0)

InResult2(m) == m \in Range(result2.selected)

\* The example of the specification: costs 50, 30, 20.
ExampleMems ==
    <<ScoredMemory(1, Text(200)), ScoredMemory(2, Text(120)),
      ScoredMemory(3, Text(80))>>

\* C11: unless the first candidate is truncated, a candidate is in the
\* result, whole, exactly when its cost is at most the budget minus the cost
\* of the candidates selected ahead of it; a candidate that does not fit is
\* passed over and the walk goes on; the result keeps the input order.  Costs
\* 50, 30, 20 with budget 60 select the first alone, tokensUsed 50.
C11_GreedyWalk ==
    /\ (calls >= 1 /\ ~Truncates(result2)) =>
          /\ \A k \in 1..Len(memories) :
                InResult2(memories[k]) <=>
                    memories[k].tokens <= budget2 - SpentBefore(k, result2)
          /\ result2.selected = SelectSeq(memories, InResult2)
    /\ (calls >= 1 /\ Truncates(result2)) =>
          /\ memories[1].tokens > budget2
          /\ SelectedIds(result2) = {1}
    /\ applyTokenBudget(ExampleMems, 60) =
          [selected |-> <<ExampleMems[1]>>, tokensUsed |-> 50]

\* C11 witness: the second candidate did not fit and was passed over, the
\* third one fitted and was selected.
C11_Witness ==
    /\ calls >= 1
    /\ Len(memories) = 3
    /\ result2.selected = <<memories[1], memories[3]>>
    /\ memories[2].tokens > budget2 - memories[1].tokens
    /\ memories[3].tokens > 0

\* C12: for maxTokens >= 0, tokensUsed is the sum of the tokens of the
\* selected items (maxTokens minus what is left of the budget) and lies in
\* 0..maxTokens.
C12_TokensUsed ==
    (calls >= 1 /\ budget2 >= 0) =>
        /\ result2.tokensUsed = SumTokens(result2.selected)
        /\ budget2 - result2.tokensUsed =
              budget2 - SpentBefore(Len(memories) + 1, result2)
                      - (IF Truncates(result2) THEN budget2 ELSE 0)
        /\ 0 <= result2.tokensUsed
        /\ result2.tokensUsed <= budget2

\* C12 witness: a call that truncated the first candidate, and so used the
\* whole budget.
C12_Witness ==
    /\ calls >= 1
    /\ budget2 >= 1
    /\ Truncates(result2)
    /\ result2.tokensUsed = budget2


(***************************************************************************)
(* Claims about the order of the startup.                                  *)
(***************************************************************************)
\* getCollection(): throws "ChromaDB not initialized" while _collection is
\* null.
GetCollectionThrows == ~handle

\* C15: the migration runs only after startChromaServer returned ready; a
\* handle is stored only after the migration call returned; and after a
\* failed supervisor the migration has not run, no store call was made,
\* there is no handle (getCollection throws), no session was started, and
\* the only step left to main is the end of the process.
C15_StartupOrder ==
    /\ []((pc \in MigBody \cup {"migCheck", "initGoc"} \/ migPath # "none")
            => sup = "ready")
    /\ [](handle => (sup = "ready" /\ migPath # "none"))
    /\ [](session => handle)
    /\ [](sup = "failed" =>
            /\ pc = "crashed"
            /\ migPath = "none"
            /\ storeOps = 0
            /\ GetCollectionThrows
            /\ ~session)
    /\ [][pc = "crashed" => pc' = "stopped"]_vars

\* C15 witness: a first start went through supervisor, migration, handle
\* and session; the supervisor of the second start failed.
C15_Witness ==
    /\ starts = 2
    /\ marker
    /\ coll.exists
    /\ sup = "failed"
    /\ pc = "crashed"

(***************************************************************************)
(* startChromaServer (src/src/chroma.ts): the sidecar supervisor, called   *)
(* by initChroma in each of two server processes that share the machine,   *)
(* the port and the container name.  One action per await.                 *)
(***************************************************************************)
\* The ceiling of the poll loop.
MaxPolls == 60

\* What a fetch of the heartbeat can give: a refused connection throws; an
\* engine that listens answers, with an OK status or (still loading) not.
ProbeOutcomes == IF server = "up" THEN {"ok", "notok"} ELSE {"throw"}

\* The first probe's result ignored: the launch is always issued.
ProbeNeverAlive(outcome) == FALSE

\* res.ok of a fetch that did not throw; a throw is caught and is "not
\* alive" as well.
ProbeAlive(outcome) == outcome = "ok"

InitSup ==
    /\ platform \in {"win32", "other"}
    /\ \/ server = "down" /\ container = "none"
       \/ server = "down" /\ container = "stopped" /\ platform = "win32"
       \/ server = "up" /\ container = "running" /\ platform = "win32"
       \/ server = "up" /\ container = "none" /\ platform = "other"
    /\ child = [p \in Procs |-> "none"]
    /\ spc = [p \in Procs |-> "idle"]
    /\ polls = [p \in Procs |-> 0]
    /\ existing = [p \in Procs |-> FALSE]
    /\ launches = [p \in Procs |-> 0]
    /\ first = [p \in Procs |-> "none"]
    /\ MigIdle
    /\ TokIdle
    /\ SesIdle
    /\ DupIdle
    /\ UpdIdle
    /\ CmpIdle
    /\ QryIdle
    /\ CtxIdle
    /\ IniIdle

\* initChroma calls startChromaServer, which issues the first probe.
SupCall(p) ==
    /\ spc[p] = "idle"
    /\ spc' = [spc EXCEPT ![p] = "probe0"]
    /\ UNCHANGED <<platform, server, container, child, polls, existing,
                   launches, first, nonSupVars>>

\* The first probe settles.  Alive: return.  Otherwise the launch path of
\* the platform: on win32 docker ps is issued; elsewhere the sidecar is
\* spawned (spawn does not wait for the child) and the poll loop begins.
SupProbe0(p) ==
    /\ spc[p] = "probe0"
    /\ \E outcome \in ProbeOutcomes :
          /\ first' = [first EXCEPT ![p] = outcome]
          /\ IF ProbeAlive(outcome)
             THEN /\ spc' = [spc EXCEPT ![p] = "ready"]
                  /\ UNCHANGED <<child, launches>>
             ELSE IF platform = "win32"
             THEN /\ spc' = [spc EXCEPT ![p] = "dockerPs"]
                  /\ UNCHANGED <<child, launches>>
             ELSE /\ spc' = [spc EXCEPT ![p] = "poll"]
                  /\ child' = [child EXCEPT ![p] = "starting"]
                  /\ launches' = [launches EXCEPT ![p] = @ + 1]
    /\ UNCHANGED <<platform, server, container, polls, existing, nonSupVars>>

\* docker ps -a settles: it rejects (the command failed, and the rejection
\* leaves startChromaServer), or its output says whether the container
\* exists, and docker start or docker run is issued.
SupDockerPs(p) ==
    /\ spc[p] = "dockerPs"
    /\ \E ok \in BOOLEAN :
          IF ok
          THEN /\ existing' = [existing EXCEPT ![p] = container # "none"]
               /\ spc' = [spc EXCEPT ![p] =
                            IF container # "none" THEN "dockerStart"
                                                  ELSE "dockerRun"]
               /\ launches' = [launches EXCEPT ![p] = @ + 1]
          ELSE /\ spc' = [spc EXCEPT ![p] = "failed"]
               /\ UNCHANGED <<existing, launches>>
    /\ UNCHANGED <<platform, server, container, child, polls, first,
                   nonSupVars>>

\* docker start settles: the container runs, or the command rejects.
SupDockerStart(p) ==
    /\ spc[p] = "dockerStart"
    /\ \E ok \in BOOLEAN :
          IF ok
          THEN /\ container' = "running"
               /\ spc' = [spc EXCEPT ![p] = "poll"]
          ELSE /\ container' = container
               /\ spc' = [spc EXCEPT ![p] = "failed"]
    /\ UNCHANGED <<platform, server, child, polls, existing, launches, first,
                   nonSupVars>>

\* docker run --name settles: it creates and runs the container, or it
\* rejects; it can only reject when a container of that name exists.
SupDockerRun(p) ==
    /\ spc[p] = "dockerRun"
    /\ \E ok \in BOOLEAN :
          /\ ok => container = "none"
          /\ IF ok
             THEN /\ container' = "running"
                  /\ spc' = [spc EXCEPT ![p] = "poll"]
             ELSE /\ container' = container
                  /\ spc' = [spc EXCEPT ![p] = "failed"]
    /\ UNCHANGED <<platform, server, child, polls, existing, launches, first,
                   nonSupVars>>

\* One turn of the poll loop: the second of sleep, then a probe.  Alive:
\* return.  Otherwise i++, and leaving the loop throws.
SupPoll(p) ==
    /\ spc[p] = "poll"
    /\ polls[p] < MaxPolls
    /\ polls' = [polls EXCEPT ![p] = @ + 1]
    /\ \E outcome \in ProbeOutcomes :
          spc' = [spc EXCEPT ![p] =
                    IF ProbeAlive(outcome) THEN "ready"
                    ELSE IF polls[p] + 1 < MaxPolls THEN "poll"
                    ELSE "failed"]
    /\ UNCHANGED <<platform, server, container, child, existing, launches,
                   first, nonSupVars>>

\* The sidecar a process spawned tries to bind the port: it serves, or the
\* port is taken by another instance and it exits.
ChildSettles(p) ==
    /\ child[p] = "starting"
    /\ IF server = "down"
       THEN /\ server' = "up"
            /\ child' = [child EXCEPT ![p] = "serving"]
       ELSE /\ server' = server
            /\ child' = [child EXCEPT ![p] = "exited"]
    /\ UNCHANGED <<platform, container, spc, polls, existing, launches,
                   first, nonSupVars>>

\* The engine in the running container begins to answer on the port.
ContainerServes ==
    /\ container = "running"
    /\ server = "down"
    /\ server' = "up"
    /\ UNCHANGED <<platform, container, child, spc, polls, existing,
                   launches, first, nonSupVars>>

NextSup ==
    \/ \E p \in Procs : SupCall(p)
    \/ \E p \in Procs : SupProbe0(p)
    \/ \E p \in Procs : SupDockerPs(p)
    \/ \E p \in Procs : SupDockerStart(p)
    \/ \E p \in Procs : SupDockerRun(p)
    \/ \E p \in Procs : SupPoll(p)
    \/ \E p \in Procs : ChildSettles(p)
    \/ ContainerServes

SpecSup == InitSup /\ [][NextSup]_vars

(***************************************************************************)
(* Claims about the supervisor.                                            *)
(***************************************************************************)
\* C13: a call whose first probe succeeds returns ready at once: it issues
\* no launch and makes no poll.
C13_FastPath ==
    \A p \in Procs :
        first[p] = "ok" =>
            /\ spc[p] = "ready"
            /\ launches[p] = 0
            /\ polls[p] = 0
            /\ child[p] = "none"

\* A call returned on its first probe while the engine was already up.
C13_Witness ==
    \E p \in Procs : first[p] = "ok" /\ spc[p] = "ready" /\ server = "up"

\* C14: a call whose first probe fails issues exactly one launch, then
\* polls at most 60 times, returns ready at the first poll that succeeds
\* (a probe that throws counts as a failed one) and fails exactly when all
\* 60 polls failed.
C14_LaunchThenPoll ==
    \A p \in Procs :
        first[p] \in {"notok", "throw"} =>
            /\ launches[p] <= 1
            /\ polls[p] <= MaxPolls
            /\ spc[p] \in {"poll", "ready", "failed"} => launches[p] = 1
            /\ spc[p] = "ready" => polls[p] >= 1
            /\ spc[p] = "failed" => polls[p] = MaxPolls

\* C16: when both processes saw the engine down and both issued a launch,
\* at most one instance serves the port, the other exits, and neither
\* call fails because it was its launch that lost: a call fails only
\* after its 60 polls.
C16_ConcurrentStarts ==
    (\A p \in Procs : first[p] \in {"notok", "throw"} /\ launches[p] = 1) =>
        /\ Cardinality({p \in Procs : child[p] = "serving"}) <= 1
        /\ \A p \in Procs : spc[p] = "failed" => polls[p] = MaxPolls
        /\ (server = "up" /\ platform = "win32") => container = "running"


(***************************************************************************)
(* The session aggregator (session.ts), main's use of it (src/src/index.ts)*)
(* and the tool handlers that touch it (src/src/tools.ts).  One run of one *)
(* process; one action per await.  Times are readings of the clock, which  *)
(* moves on while a call to the sessions collection is in flight; 0 is the *)
(* empty string "" of start_time and end_time.                             *)
(***************************************************************************)
\* The id generateSessionId assigns.
SesId == "ses"

\* args.project ?? "" and args.type ?? "discovery" of a saveMemory call.
SaveArgs == { [project |-> "proj-a", type |-> "bugfix"],
              [project |-> "proj-b", type |-> "bugfix"],
              [project |-> "", type |-> "discovery"] }
TypeArgs == {"bugfix", "discovery"}

\* Set.prototype.add on a Set kept in insertion order.
SetAdd(seq, x) == IF x \in Range(seq) THEN seq ELSE Append(seq, x)

\* String(n) of a count.
String(n) == ToString(n)

\* startSession writing a record that is already closed.
StartRecordClosed(id, t) ==
    [session_id |-> id, start_time |-> t, end_time |-> t,
     memory_count |-> "0", projects |-> <<>>, types_seen |-> <<>>]

\* The metadata startSession upserts; the JSON text "[]" is the empty list.
StartRecord(id, t) ==
    [session_id |-> id, start_time |-> t, end_time |-> 0,
     memory_count |-> "0", projects |-> <<>>, types_seen |-> <<>>]

\* endSession writing the record without the counters.
EndRecordNoCounters(id, st, t, snapshot, types) ==
    [session_id |-> id, start_time |-> st, end_time |-> t,
     memory_count |-> "0", projects |-> <<>>, types_seen |-> <<>>]

\* The metadata endSession sends with update: the counter and the projects
\* of the snapshot, the types of _typesSeen as it is now.
EndRecord(id, st, t, snapshot, types) ==
    [session_id |-> id, start_time |-> st, end_time |-> t,
     memory_count |-> String(snapshot.memoryCount),
     projects |-> snapshot.projects, types_seen |-> types]

\* getSessionStats()
getSessionStats ==
    [memoryCount |-> memoryCount, projects |-> projectsSeen,
     typesSeen |-> typesSeen]

\* trackSave persisting the counter as it goes.
WrittenByTrackSave(recs) ==
    [i \in 1..Len(recs) |->
        [recs[i] EXCEPT !.memory_count = String(memoryCount + 1)]]

\* The sessions collection after trackSave: it makes no call on it.
AfterTrackSave(recs) == recs

\* saveMemory calling trackSave without looking at the session id it read.
TracksSaveUntagged(ok, sid) == ok

\* saveMemory calling trackSave whether or not the upsert succeeded.
TracksSaveAlways(ok, sid) == sid # ""

\* saveMemory reaches trackSave: the upsert did not reject, and a session
\* id had been read.
TracksSave(ok, sid) == ok /\ sid # ""

\* trackSave(project, type)
trackSave(project, type) ==
    /\ memoryCount' = memoryCount + 1
    /\ projectsSeen' = IF project # "" THEN SetAdd(projectsSeen, project)
                       ELSE projectsSeen
    /\ typesSeen' = SetAdd(typesSeen, type)
    /\ activities' = Append(activities, [project |-> project, type |-> type])

InitSes ==
    /\ SesIdle
    /\ MigIdle
    /\ TokIdle
    /\ SupIdle
    /\ DupIdle
    /\ UpdIdle
    /\ CmpIdle
    /\ QryIdle
    /\ CtxIdle
    /\ IniIdle

endVars == <<stats, startTime, callLen, issueLen, getOk, tagged>>
counters == <<memoryCount, projectsSeen, typesSeen, activities>>

\* The process is gone, and its module state and calls in flight with it;
\* the collections stay.
ProcessGone ==
    /\ mainPc' = "dead"
    /\ sessionId' = ""
    /\ memoryCount' = 0
    /\ projectsSeen' = <<>>
    /\ typesSeen' = <<>>
    /\ pending' = <<>>
    /\ stats' = NoStats
    /\ startTime' = 0
    /\ saves' = [k \in 1..MaxSaves |-> NoSave]
    /\ activities' = <<>>
    /\ callLen' = 0
    /\ issueLen' = 0
    /\ tagged' = 0
    /\ getOk' = "none"

\* main: generateSessionId(), then startSession calls getSessionCollection.
SesGenerate ==
    /\ mainPc = "init"
    /\ sessionId' = SesId
    /\ mainPc' = "startColl"
    /\ UNCHANGED <<counters, sessions, memStore, now, pending, saves,
                   sesWrites, started, endVars, nonSesVars>>

\* startSession: getSessionCollection settles; the upsert is issued with
\* start_time read now.  A rejection leaves main: process.exit(1).
StartColl ==
    /\ mainPc = "startColl"
    /\ now' = now + 1
    /\ \E ok \in BOOLEAN :
          IF ok
          THEN /\ pending' = <<StartRecord(sessionId, now')>>
               /\ mainPc' = "startUpsert"
               /\ UNCHANGED <<sessionId, counters, saves, endVars>>
          ELSE ProcessGone
    /\ UNCHANGED <<sessions, memStore, sesWrites, started, nonSesVars>>

\* startSession: the upsert settles, and main goes on to serve.
StartUpsert ==
    /\ mainPc = "startUpsert"
    /\ now' = now + 1
    /\ \E ok \in BOOLEAN :
          IF ok
          THEN /\ sessions' = pending
               /\ sesWrites' = Append(sesWrites, "startSession")
               /\ started' = pending
               /\ mainPc' = "open"
               /\ pending' = <<>>
               /\ UNCHANGED <<sessionId, counters, saves, endVars>>
          ELSE /\ UNCHANGED <<sessions, sesWrites, started>>
               /\ ProcessGone
    /\ UNCHANGED <<memStore, nonSesVars>>

\* transport.onclose: endSession takes its snapshot and awaits
\* getSessionCollection.
EndCall ==
    /\ mainPc = "open"
    /\ stats' = getSessionStats
    /\ callLen' = Len(activities)
    /\ mainPc' = "endColl"
    /\ UNCHANGED <<sessionId, counters, sessions, memStore, now, pending,
                   saves, sesWrites, started, startTime, issueLen, getOk,
                   tagged, nonSesVars>>

\* endSession: the cached collection is returned; startTime = "", and the
\* read-back is issued.
EndColl ==
    /\ mainPc = "endColl"
    /\ startTime' = 0
    /\ mainPc' = "endGet"
    /\ UNCHANGED <<sessionId, counters, sessions, memStore, now, pending,
                   saves, sesWrites, started, stats, callLen, issueLen, getOk,
                   tagged, nonSesVars>>

\* endSession: the read-back settles.  A rejection is caught and startTime
\* stays "".  Then the update is issued, with end_time read now.
EndGet ==
    /\ mainPc = "endGet"
    /\ now' = now + 1
    /\ \E ok \in BOOLEAN :
          /\ getOk' = IF ok THEN "ok" ELSE "rejected"
          /\ startTime' = IF ok /\ Len(sessions) > 0
                          THEN sessions[1].start_time ELSE startTime
    /\ pending' = <<EndRecord(sessionId, startTime', now', stats, typesSeen)>>
    /\ issueLen' = Len(activities)
    /\ mainPc' = "endUpdate"
    /\ UNCHANGED <<sessionId, counters, sessions, memStore, saves, sesWrites,
                   started, stats, callLen, tagged, nonSesVars>>

\* endSession: the update settles; a rejection is caught by onclose.
EndUpdate ==
    /\ mainPc = "endUpdate"
    /\ now' = now + 1
    /\ \E ok \in BOOLEAN :
          IF ok /\ Len(sessions) > 0
          THEN /\ sessions' = pending
               /\ sesWrites' = Append(sesWrites, "endSession")
          ELSE UNCHANGED <<sessions, sesWrites>>
    /\ pending' = <<>>
    /\ mainPc' = "closed"
    /\ UNCHANGED <<sessionId, counters, memStore, saves, started, endVars,
                   nonSesVars>>

\* The process is killed before endSession has finished.
ProcessKilled ==
    /\ mainPc \in {"open", "endColl", "endGet", "endUpdate"}
    /\ ProcessGone
    /\ UNCHANGED <<sessions, memStore, now, sesWrites, started, nonSesVars>>

\* getSessionId(): throws "Session not started" while _sessionId is null.
GetSessionIdThrows == sessionId = ""

\* saveMemory's sessionId: "" before the try, the id when getSessionId
\* returned one, still "" when it threw and the catch swallowed it.
ReadSessionId == IF GetSessionIdThrows THEN "" ELSE sessionId

\* saveMemory up to its upsert: getCollection, getSessionId() (a throw is
\* caught and leaves ""), the metadata, the call of upsert.
SaveCall(k) ==
    /\ mainPc \in {"init", "open"}
    /\ saves[k].st = "idle"
    /\ \A j \in 1..(k - 1) : saves[j].st # "idle"
    /\ \E args \in SaveArgs :
          saves' = [saves EXCEPT ![k] =
                      [st |-> "upsert", sid |-> ReadSessionId,
                       project |-> args.project, type |-> args.type]]
    /\ UNCHANGED <<sessionId, counters, sessions, memStore, now, mainPc,
                   pending, sesWrites, started, endVars, nonSesVars>>

\* saveMemory: the upsert settles; trackSave when a session id was read.
\* The count that follows only reads, for the text saveMemory returns, and
\* is taken with this step.  A rejection leaves saveMemory.
SaveUpsert(k) ==
    /\ mainPc # "dead"
    /\ saves[k].st = "upsert"
    /\ \E ok \in BOOLEAN :
          /\ saves' = [saves EXCEPT ![k] =
                         [NoSave EXCEPT !.st = IF ok THEN "done"
                                               ELSE "rejected"]]
          /\ memStore' = IF ok
                         THEN memStore \cup
                                {[id |-> k, session_id |-> saves[k].sid,
                                  type |-> saves[k].type]}
                         ELSE memStore
          /\ tagged' = IF ok /\ saves[k].sid # "" THEN tagged + 1 ELSE tagged
          /\ IF TracksSave(ok, saves[k].sid)
             THEN /\ trackSave(saves[k].project, saves[k].type)
                  /\ sessions' = AfterTrackSave(sessions)
             ELSE UNCHANGED <<counters, sessions>>
    /\ UNCHANGED <<sessionId, now, mainPc, pending, sesWrites,
                   started, stats, startTime, callLen, issueLen, getOk,
                   nonSesVars>>

\* deleteMemory (and the delete of compactMemories): records leave the
\* memories collection.
DeleteMemory ==
    /\ mainPc \in {"init", "open"}
    /\ \E m \in memStore : memStore' = memStore \ {m}
    /\ UNCHANGED <<sessionId, counters, sessions, now, mainPc, pending, saves,
                   sesWrites, started, endVars, nonSesVars>>

\* updateMemory with a type argument, on a record that exists.
UpdateMemory ==
    /\ mainPc \in {"init", "open"}
    /\ \E m \in memStore, type \in TypeArgs :
          /\ type # m.type
          /\ memStore' = (memStore \ {m}) \cup {[m EXCEPT !.type = type]}
    /\ UNCHANGED <<sessionId, counters, sessions, now, mainPc, pending, saves,
                   sesWrites, started, endVars, nonSesVars>>

NextSes ==
    \/ SesGenerate
    \/ StartColl
    \/ StartUpsert
    \/ EndCall
    \/ EndColl
    \/ EndGet
    \/ EndUpdate
    \/ ProcessKilled
    \/ \E k \in 1..MaxSaves : SaveCall(k)
    \/ \E k \in 1..MaxSaves : SaveUpsert(k)
    \/ DeleteMemory
    \/ UpdateMemory

SpecSes == InitSes /\ [][NextSes]_vars


(***************************************************************************)
(* Claims about the session aggregator.                                    *)
(***************************************************************************)
\* The persisted record of the run's session.
SessionRecord == sessions[1]

\* The record startSession wrote.
StartedRecord == started[1]

\* startSession and endSession have both written, and endSession returned.
ClosedWritten ==
    mainPc = "closed" /\ sesWrites = <<"startSession", "endSession">>

\* The distinct non-empty projects, and the types, of the first n recorded
\* activities.
ProjectsOf(n) == {activities[i].project : i \in 1..n} \ {""}
TypesOf(n) == {activities[i].type : i \in 1..n}

NoRepeat(seq) == \A i, j \in 1..Len(seq) : seq[i] = seq[j] => i = j

\* C17: after startSession, recorded activities and an endSession whose
\* calls succeeded, the record holds memory_count = the number of
\* activities recorded when endSession was called, projects = their
\* distinct non-empty projects, types_seen = the distinct types recorded
\* (those are the same activities when none is recorded while endSession
\* runs), the start_time startSession wrote and a later, non-empty
\* end_time; two activities ("proj-a", "bugfix") give "2", ["proj-a"] and
\* ["bugfix"].
C17_SessionRoundTrip ==
    ClosedWritten =>
        /\ SessionRecord.memory_count = String(callLen)
        /\ NoRepeat(SessionRecord.projects)
        /\ Range(SessionRecord.projects) = ProjectsOf(callLen)
        /\ NoRepeat(SessionRecord.types_seen)
        /\ Range(SessionRecord.types_seen) = TypesOf(issueLen)
        /\ SessionRecord.end_time # 0
        /\ SessionRecord.end_time > StartedRecord.start_time
        /\ getOk = "ok" => SessionRecord.start_time = StartedRecord.start_time
        /\ (/\ callLen = 2
            /\ issueLen = 2
            /\ \A i \in 1..2 :
                  activities[i] = [project |-> "proj-a", type |-> "bugfix"])
             => /\ SessionRecord.memory_count = "2"
                /\ SessionRecord.projects = <<"proj-a">>
                /\ SessionRecord.types_seen = <<"bugfix">>

\* C17 witness: the round trip with two activities ("proj-a", "bugfix").
C17_Witness ==
    /\ ClosedWritten
    /\ getOk = "ok"
    /\ Len(activities) = 2
    /\ SessionRecord.end_time > StartedRecord.start_time
    /\ SessionRecord = [StartedRecord EXCEPT
                           !.end_time = SessionRecord.end_time,
                           !.memory_count = "2",
                           !.projects = <<"proj-a">>,
                           !.types_seen = <<"bugfix">>]

\* C18: whatever the read-back of endSession does, the persisted record
\* carries the start_time startSession wrote.
C18_StartTimeKept ==
    Len(sessions) > 0 => SessionRecord.start_time = StartedRecord.start_time

\* C19: the sessions collection is written at most twice in a run, by
\* startSession and then by endSession; a step that records an activity
\* leaves it as it is; between the two writes, and for good when the
\* process is killed before endSession has written, the record is the one
\* startSession wrote: end_time "", memory_count 0, no projects, no types.
C19_WrittenTwice ==
    /\ [](sesWrites \in {<<>>, <<"startSession">>,
                         <<"startSession", "endSession">>})
    /\ [](sesWrites = <<"startSession">> =>
            /\ sessions = started
            /\ SessionRecord.end_time = 0
            /\ SessionRecord.memory_count = String(0)
            /\ SessionRecord.projects = <<>>
            /\ SessionRecord.types_seen = <<>>)
    /\ [](mainPc = "dead" => sesWrites # <<"startSession", "endSession">>)
    /\ [][memoryCount' > memoryCount =>
            (sessions' = sessions /\ sesWrites' = sesWrites)]_vars

\* C19 witness: the process was killed after a memory was saved with the
\* session's id, and the record is still the open one.
C19_Witness ==
    /\ mainPc = "dead"
    /\ sesWrites = <<"startSession">>
    /\ SessionRecord.end_time = 0
    /\ \E m \in memStore : m.session_id = SesId

\* C20: _memoryCount is the number of saveMemory calls whose upsert
\* succeeded with a session id read; a rejected upsert does not count;
\* deleteMemory and updateMemory leave it alone; it never decreases while
\* the process runs.
C20_MemoryCount ==
    /\ [](memoryCount = tagged)
    /\ [][mainPc' # "dead" => memoryCount' >= memoryCount]_vars
    /\ [][(\E k \in 1..MaxSaves : saves'[k].st = "rejected"
                                  /\ saves[k].st = "upsert")
            => memoryCount' = memoryCount]_vars
    /\ [][(memStore' # memStore /\ saves' = saves)
            => memoryCount' = memoryCount]_vars

\* C20 witness: two saves counted, one rejected, and the stored memories
\* deleted again.
C20_Witness ==
    /\ mainPc = "open"
    /\ memoryCount = 2
    /\ memStore = {}
    /\ \E k \in 1..MaxSaves : saves[k].st = "rejected"


\* C21: while no session id is assigned getSessionId throws; a saveMemory
\* call made then still issues its upsert, with session_id "", and when
\* the upsert succeeds the memory is stored with session_id "" and
\* _memoryCount, _projectsSeen and _typesSeen stay as they were.
C21_SaveWithoutSession ==
    /\ [](mainPc = "init" => GetSessionIdThrows)
    /\ [][\A k \in 1..MaxSaves :
            (GetSessionIdThrows /\ saves[k].st = "idle" /\ saves'[k].st # "idle")
               => (saves'[k].st = "upsert" /\ saves'[k].sid = "")]_vars
    /\ [][\A k \in 1..MaxSaves :
            (saves[k].st = "upsert" /\ saves[k].sid = "" /\ saves'[k].st = "done")
               => /\ \E m \in memStore' \ memStore :
                        m.id = k /\ m.session_id = ""
                  /\ memoryCount' = memoryCount
                  /\ projectsSeen' = projectsSeen
                  /\ typesSeen' = typesSeen]_vars

\* C21 witness: a memory saved before generateSessionId is in the store
\* without a session id, and nothing was counted.
C21_Witness ==
    /\ mainPc = "init"
    /\ saves[1].st = "done"
    /\ \E m \in memStore : m.id = 1 /\ m.session_id = ""
    /\ memoryCount = 0
    /\ typesSeen = <<>>


(***************************************************************************)
(* saveToChroma and isDuplicate (src/hooks/post-tool-use.ts): the          *)
(* duplicate suppressor, in two hook runs that share the collection.  One  *)
(* action per await.  An embedding is a point, the distance of two         *)
(* embeddings the gap between their points, in hundredths.                 *)
(***************************************************************************)
\* The closeness threshold 0.05, in hundredths.
DUP_THRESHOLD == 5

\* What a hook run captures, and where the embedding provider puts it:
\* "fix." is nearer to "fix" than the threshold, "fix!" exactly at it.
HookContents == {"fix", "fix.", "fix!", "other"}
Point(content) ==
    CASE content = "fix" -> 0
      [] content = "fix." -> 4
      [] content = "fix!" -> 5
      [] OTHER -> 50

Distance(a, b) == IF a >= b THEN a - b ELSE b - a

\* A record of the memories collection.
Mem(id, content, emb, type, project, tags, created_at, source) ==
    [id |-> id, content |-> content, emb |-> emb, type |-> type,
     project |-> project, tags |-> tags, created_at |-> created_at,
     source |-> source]

\* The record saveToChroma upserts.
HookRecord(h) ==
    Mem(h, hcontent[h], hemb[h], "change", "", "auto", 0, "hook-auto")

\* data.distances of a query with n_results 1 that the store answered: the
\* distance of the nearest record, or no entry when the collection is
\* empty.
Nearest(recs, emb) ==
    IF recs = <<>> THEN {}
    ELSE {CHOOSE d \in {Distance(recs[k].emb, emb) : k \in 1..Len(recs)} :
            \A k \in 1..Len(recs) : d <= Distance(recs[k].emb, emb)}

\* The comparison written with <=.
AtOrBelowThreshold(distance) == distance <= DUP_THRESHOLD

\* distance < 0.05
BelowThreshold(distance) == distance < DUP_THRESHOLD

\* The catch of isDuplicate reporting a duplicate.
FailClosed == TRUE

\* What isDuplicate returns when there is no distance to compare: the
\* fetch or res.json() threw (catch), or the body has no distances, or the
\* distances hold no entry (distance === undefined).
FailOpen == FALSE

\* isDuplicate(embedding, collectionId), given how the query ended.
isDuplicate(outcome, recs, emb) ==
    IF outcome = "ok" /\ Nearest(recs, emb) # {}
    THEN \E d \in Nearest(recs, emb) : BelowThreshold(d)
    ELSE FailOpen

QueryOutcomes == {"ok", "throw", "errorBody"}

\* saveToChroma going on to the upsert whatever the check said.
NeverSkips(dup) == FALSE

\* if (await isDuplicate(...)) return;
SkipsUpsert(dup) == dup

\* A check that is held back while another run is about to write.
CheckWaitsForWriters(h) == \E g \in Hooks \ {h} : hpc[g] = "upsert"

\* The check waits for no other run: saveToChroma takes no lock.
CheckWaits(h) == FALSE

\* The collection before the hook runs: empty, or one manual memory.
InitDup ==
    /\ store \in {<<>>,
                  <<Mem(0, "fix", Point("fix"), "discovery", "", "", 0,
                        "manual")>>}
    /\ hpc = [h \in Hooks |-> "idle"]
    /\ hcontent = [h \in Hooks |-> ""]
    /\ hemb = [h \in Hooks |-> 0]
    /\ hdup = [h \in Hooks |-> FALSE]
    /\ hquery = [h \in Hooks |-> "none"]
    /\ hseen = [h \in Hooks |-> {}]
    /\ hanswered = [h \in Hooks |-> {}]
    /\ htrace = [h \in Hooks |-> <<>>]
    /\ MigIdle
    /\ TokIdle
    /\ SupIdle
    /\ SesIdle
    /\ UpdIdle
    /\ CmpIdle
    /\ QryIdle
    /\ CtxIdle
    /\ IniIdle

\* main calls saveToChroma(content, ...): without an API key it returns,
\* otherwise getCollectionId is called.
HookStart(h) ==
    /\ hpc[h] = "idle"
    /\ \E content \in HookContents, key \in BOOLEAN :
          /\ hcontent' = [hcontent EXCEPT ![h] = content]
          /\ hpc' = [hpc EXCEPT ![h] = IF key THEN "collection" ELSE "exit"]
    /\ UNCHANGED <<store, hemb, hdup, hquery, hseen, hanswered, htrace,
                   nonDupVars>>

\* getCollectionId settles: null (not ok, no such collection, a throw)
\* ends the run; an id lets generateEmbedding be called.
HookCollection(h) ==
    /\ hpc[h] = "collection"
    /\ \E found \in BOOLEAN :
          /\ hpc' = [hpc EXCEPT ![h] = IF found THEN "embed" ELSE "exit"]
          /\ htrace' = [htrace EXCEPT ![h] =
                          IF found THEN Append(@, "embed") ELSE @]
    /\ UNCHANGED <<store, hcontent, hemb, hdup, hquery, hseen, hanswered,
                   nonDupVars>>

\* generateEmbedding settles: the embedding, and the query of isDuplicate
\* is issued; or a throw, which ends the run in main's catch.
HookEmbed(h) ==
    /\ hpc[h] = "embed"
    /\ \E ok \in BOOLEAN :
          IF ok
          THEN /\ hemb' = [hemb EXCEPT ![h] = Point(hcontent[h])]
               /\ hpc' = [hpc EXCEPT ![h] = "check"]
               /\ hseen' = [hseen EXCEPT ![h] =
                              {store[k].id : k \in 1..Len(store)}]
               /\ htrace' = [htrace EXCEPT ![h] = Append(@, "check")]
          ELSE /\ hpc' = [hpc EXCEPT ![h] = "exit"]
               /\ UNCHANGED <<hemb, hseen, htrace>>
    /\ UNCHANGED <<store, hcontent, hdup, hquery, hanswered, nonDupVars>>

\* The query of isDuplicate settles, answered from the collection as it is:
\* a duplicate ends the run, anything else issues the upsert.
HookCheck(h) ==
    /\ hpc[h] = "check"
    /\ ~CheckWaits(h)
    /\ hanswered' = [hanswered EXCEPT ![h] =
                       {store[k].id : k \in 1..Len(store)}]
    /\ \E outcome \in QueryOutcomes :
          LET dup == isDuplicate(outcome, store, hemb[h]) IN
          /\ hquery' = [hquery EXCEPT ![h] = outcome]
          /\ hdup' = [hdup EXCEPT ![h] = dup]
          /\ IF SkipsUpsert(dup)
             THEN /\ hpc' = [hpc EXCEPT ![h] = "exit"]
                  /\ htrace' = htrace
             ELSE /\ hpc' = [hpc EXCEPT ![h] = "upsert"]
                  /\ htrace' = [htrace EXCEPT ![h] = Append(@, "upsert")]
    /\ UNCHANGED <<store, hcontent, hemb, hseen, nonDupVars>>

\* The upsert settles (its response is not looked at), and main exits.
HookUpsert(h) ==
    /\ hpc[h] = "upsert"
    /\ \E ok \in BOOLEAN :
          store' = IF ok
                   THEN UpsertOne(store, HookRecord(h)) ELSE store
    /\ hpc' = [hpc EXCEPT ![h] = "exit"]
    /\ UNCHANGED <<hcontent, hemb, hdup, hquery, hseen, hanswered, htrace,
                   nonDupVars>>

NextDup ==
    \/ \E h \in Hooks : HookStart(h)
    \/ \E h \in Hooks : HookCollection(h)
    \/ \E h \in Hooks : HookEmbed(h)
    \/ \E h \in Hooks : HookCheck(h)
    \/ \E h \in Hooks : HookUpsert(h)

SpecDup == InitDup /\ [][NextDup]_vars


(***************************************************************************)
(* Claims about the duplicate suppressor.                                  *)
(***************************************************************************)
\* Some record of the collection is nearer to emb than the threshold.
SomeNear(recs, emb) ==
    \E k \in 1..Len(recs) : Distance(recs[k].emb, emb) < DUP_THRESHOLD

InStore(id) == \E k \in 1..Len(store) : store[k].id = id

\* C22: the check of a run reports a duplicate exactly when the query was
\* answered, the collection held a record, and the nearest one was nearer
\* than 0.05; a record exactly 0.05 away is no duplicate.
C22_StrictThreshold ==
    /\ [][\A h \in Hooks :
            (hpc[h] = "check" /\ hpc'[h] # "check") =>
               (hdup'[h] <=> (hquery'[h] = "ok" /\ SomeNear(store, hemb[h])))]_vars
    /\ \A e \in 0..(2 * DUP_THRESHOLD) :
          LET recs == <<Mem(0, "fix", 0, "discovery", "", "", 0, "manual")>>
          IN isDuplicate("ok", recs, e) <=> e < DUP_THRESHOLD

\* C22 witness: a run whose content is exactly 0.05 from the stored record
\* was answered, was told "no duplicate", and wrote its record.
C22_Witness ==
    \E h \in Hooks :
        /\ hquery[h] = "ok"
        /\ ~hdup[h]
        /\ InStore(h)
        /\ hanswered[h] = {0}
        /\ Distance(hemb[h], store[1].emb) = DUP_THRESHOLD

\* C23: a query that throws or returns an error body, and a query on an
\* empty collection, make the check report "no duplicate", and the run
\* issues its upsert.
C23_FailOpen ==
    [][\A h \in Hooks :
         (/\ hpc[h] = "check"
          /\ hpc'[h] # "check"
          /\ (hquery'[h] \in {"throw", "errorBody"} \/ store = <<>>))
            => (~hdup'[h] /\ hpc'[h] = "upsert")]_vars

\* C23 witness: the query of a run threw although a near record was
\* stored, and the run's record was inserted next to it.
C23_Witness ==
    \E h \in Hooks :
        /\ hquery[h] = "throw"
        /\ InStore(h)
        /\ InStore(0)
        /\ Distance(hemb[h], Point("fix")) < DUP_THRESHOLD

\* C24: a run calls generateEmbedding, then the check, then the upsert, in
\* that order; the record it writes carries the embedding it checked; a
\* run told "duplicate" issues no upsert; and a run whose check was issued
\* when a record nearer than the threshold was stored, and was answered,
\* writes nothing.
C24_CheckBeforeInsert ==
    \A h \in Hooks :
        /\ \E n \in 0..3 : htrace[h] = SubSeq(<<"embed", "check", "upsert">>, 1, n)
        /\ hpc[h] = "upsert" => (hquery[h] # "none" /\ ~hdup[h])
        /\ hdup[h] => (hpc[h] = "exit" /\ ~InStore(h) /\ Len(htrace[h]) = 2)
        /\ \A k \in 1..Len(store) :
              store[k].id = h =>
                 (store[k].emb = hemb[h] /\ store[k].emb = Point(hcontent[h]))
        /\ (/\ hquery[h] = "ok"
            /\ \E k \in 1..Len(store) :
                  /\ store[k].id \in hseen[h]
                  /\ Distance(store[k].emb, hemb[h]) < DUP_THRESHOLD)
             => (hdup[h] /\ ~InStore(h))

\* C24 witness: the second run began its check after the first run's
\* record was stored, its content is near but not the same, and it wrote
\* nothing.
C24_Witness ==
    /\ InStore(1)
    /\ 1 \in hseen[2]
    /\ hcontent[1] = "fix"
    /\ hcontent[2] = "fix."
    /\ hquery[2] = "ok"
    /\ hdup[2]
    /\ hpc[2] = "exit"
    /\ ~InStore(2)

\* C25: no run waits for another: a check that is due can be answered and
\* an upsert that is due can be made whatever the other run is doing; and
\* a check answered before the other run's record is stored, with no near
\* record stored, reports "no duplicate".
C25_NoLock ==
    \A h \in Hooks :
        /\ hpc[h] = "check" => ENABLED HookCheck(h)
        /\ hpc[h] = "upsert" => ENABLED HookUpsert(h)
        /\ (/\ hquery[h] = "ok"
            /\ \A k \in 1..Len(store) :
                  store[k].id \in hanswered[h] =>
                     Distance(store[k].emb, hemb[h]) >= DUP_THRESHOLD)
             => ~hdup[h]

\* C25 witness: both runs were answered "no duplicate" before either wrote,
\* and the collection holds their two records, nearer to each other than
\* the threshold.
C25_Witness ==
    /\ hquery = [h \in Hooks |-> "ok"]
    /\ hdup = [h \in Hooks |-> FALSE]
    /\ hanswered = [h \in Hooks |-> {}]
    /\ Len(store) = 2
    /\ store[1].source = "hook-auto"
    /\ store[2].source = "hook-auto"
    /\ Distance(store[1].emb, store[2].emb) < DUP_THRESHOLD


(***************************************************************************)
(* The call-tool dispatcher (src/src/index.ts) and updateMemory            *)
(* (src/src/tools.ts), for two requests in flight.  One action per await.  *)
(***************************************************************************)
\* The memory the requests are about, as saveMemory stored it.
StoredMemory == Mem(1, "fix", Point("fix"), "discovery", "recall", "[]", 1,
                    "manual")

\* request.params.name: a tool of the switch, or none of them.
ToolNames == {"update_memory", "no_such_tool"}

\* request.params.arguments of update_memory: an id that is stored or one
\* that is not, and each of content, type, project, tags supplied or not.
UpdateArgs ==
    [id : {1, 9}, content : {"undefined", "other"},
     type : {"undefined", "decision"}, project : {"undefined", ""},
     tags : {"undefined", "[new]"}]

\* collection.get({ids: [id]}): the records with that id.
GetById(recs, id) == SelectSeq(recs, LAMBDA r : r.id = id)

\* updateMemory writing the type default instead of the current type.
NewTypeDefault(args, cur) ==
    IF args.type # "undefined" THEN args.type ELSE "discovery"

\* args.content ?? currentContent, and the three merged metadata fields.
NewContent(args, cur) ==
    IF args.content # "undefined" THEN args.content ELSE cur.content
NewType(args, cur) ==
    IF args.type # "undefined" THEN args.type ELSE cur.type
NewProject(args, cur) ==
    IF args.project # "undefined" THEN args.project ELSE cur.project
NewTags(args, cur) ==
    IF args.tags # "undefined" THEN args.tags ELSE cur.tags

\* collection.update of one record: the document replaced and embedded
\* again, the metadata keys that are given set, the other keys kept.
UpdateRecord(r, args, cur) ==
    [r EXCEPT !.content = NewContent(args, cur),
              !.emb = Point(NewContent(args, cur)),
              !.type = NewType(args, cur),
              !.project = NewProject(args, cur),
              !.tags = NewTags(args, cur),
              !.created_at = cur.created_at]

\* A dispatcher without the catch: the error leaves the handler.
DispatchRethrows == "fault"

\* The catch of the dispatcher: {content: [{error: message}], isError: true}.
DispatchCatch == "isError"

\* What a request ends with, and what an error that left the handler does
\* to the server.
Finish(c, result) ==
    /\ ures' = [ures EXCEPT ![c] = result]
    /\ upc' = [upc EXCEPT ![c] = "done"]
    /\ serving' = (serving /\ result # "fault")

InitUpd ==
    /\ store = <<StoredMemory>>
    /\ UpdIdle
    /\ CmpIdle
    /\ QryIdle
    /\ CtxIdle
    /\ IniIdle
    /\ hpc = [h \in Hooks |-> "idle"]
    /\ hcontent = [h \in Hooks |-> ""]
    /\ hemb = [h \in Hooks |-> 0]
    /\ hdup = [h \in Hooks |-> FALSE]
    /\ hquery = [h \in Hooks |-> "none"]
    /\ hseen = [h \in Hooks |-> {}]
    /\ hanswered = [h \in Hooks |-> {}]
    /\ htrace = [h \in Hooks |-> <<>>]
    /\ MigIdle
    /\ TokIdle
    /\ SupIdle
    /\ SesIdle

\* A request arrives: an unknown name throws in the switch and is caught;
\* update_memory calls updateMemory, which issues its get.
Dispatch(c) ==
    /\ serving
    /\ upc[c] = "idle"
    /\ \E name \in ToolNames, args \in UpdateArgs :
          /\ uname' = [uname EXCEPT ![c] = name]
          /\ uargs' = [uargs EXCEPT ![c] = args]
          /\ IF name = "update_memory"
             THEN /\ upc' = [upc EXCEPT ![c] = "get"]
                  /\ UNCHANGED <<ures, serving>>
             ELSE Finish(c, DispatchCatch)
    /\ UNCHANGED <<store, ucur, uwrites, nonUpdVars>>

\* updateMemory: the get settles.  No such id: the {error} text is
\* returned as the result.  Otherwise the update is issued.  A rejection
\* is thrown to the dispatcher.
UpdGet(c) ==
    /\ serving
    /\ upc[c] = "get"
    /\ \E ok \in BOOLEAN :
          IF ~ok THEN Finish(c, DispatchCatch) /\ ucur' = ucur
          ELSE /\ ucur' = [ucur EXCEPT ![c] = GetById(store, uargs[c].id)]
               /\ IF Len(ucur'[c]) = 0
                  THEN Finish(c, "errorValue")
                  ELSE /\ upc' = [upc EXCEPT ![c] = "update"]
                       /\ UNCHANGED <<ures, serving>>
    /\ UNCHANGED <<store, uname, uargs, uwrites, nonUpdVars>>

\* updateMemory: the update settles, and the success text is returned; a
\* rejection is thrown to the dispatcher.
UpdWrite(c) ==
    /\ serving
    /\ upc[c] = "update"
    /\ \E ok \in BOOLEAN :
          IF ok
          THEN /\ store' = [k \in 1..Len(store) |->
                              IF store[k].id = uargs[c].id
                              THEN UpdateRecord(store[k], uargs[c], ucur[c][1])
                              ELSE store[k]]
               /\ uwrites' = [uwrites EXCEPT ![c] = @ + 1]
               /\ Finish(c, "ok")
          ELSE /\ UNCHANGED <<store, uwrites>>
               /\ Finish(c, DispatchCatch)
    /\ UNCHANGED <<uname, uargs, ucur, nonUpdVars>>

NextUpd ==
    \/ \E c \in Requests : Dispatch(c)
    \/ \E c \in Requests : UpdGet(c)
    \/ \E c \in Requests : UpdWrite(c)

SpecUpd == InitUpd /\ [][NextUpd]_vars


(***************************************************************************)
(* Claims about the dispatcher and updateMemory.                           *)
(***************************************************************************)
\* C26: update_memory on an id that is not stored ends with the {error}
\* text as an ordinary result, and has written nothing; an unknown tool
\* name, and a store call that rejects inside a handler, end with an
\* isError result; whatever a request ends with, the server stays up.
C26_ErrorsAreValues ==
    /\ [](serving)
    /\ [](\A c \in Requests :
            /\ upc[c] = "done" => ures[c] \in {"ok", "errorValue", "isError"}
            /\ (upc[c] = "done" /\ uname[c] = "no_such_tool")
                 => ures[c] = "isError"
            /\ ures[c] = "errorValue"
                 => (uname[c] = "update_memory" /\ uwrites[c] = 0
                     /\ GetById(store, uargs[c].id) = <<>>)
            /\ ures[c] = "isError" => uwrites[c] = 0)
    /\ [][\A c \in Requests :
            (upc[c] = "get" /\ upc'[c] = "done") =>
               /\ store' = store
               /\ ures'[c] \in {"errorValue", "isError"}
               /\ ures'[c] = "errorValue" => GetById(store, uargs[c].id) = <<>>]_vars

\* C26 witness: one request named an unknown tool, the other updated an
\* unknown id; both were answered, and the store is as it was.
C26_Witness ==
    /\ serving
    /\ uname[1] = "no_such_tool"
    /\ ures[1] = "isError"
    /\ uname[2] = "update_memory"
    /\ uargs[2].id = 9
    /\ ures[2] = "errorValue"
    /\ store = <<StoredMemory>>

\* The record with that id in a collection that holds it once.
RecordOf(recs, id) == GetById(recs, id)[1]

\* C27: the update of an existing record that succeeds leaves each of
\* content, type, project and tags that was not supplied at the value the
\* call found, which is the value it had before the step whenever nothing
\* else wrote the record since; a supplied field takes the value supplied;
\* created_at is changed by no step.
C27_UpdateFrame ==
    /\ [][\A c \in Requests :
            (upc[c] = "update" /\ ures'[c] = "ok") =>
               LET args == uargs[c]
                   cur == ucur[c][1]
                   old == RecordOf(store, args.id)
                   new == RecordOf(store', args.id)
               IN /\ new.content = IF args.content = "undefined"
                                   THEN cur.content ELSE args.content
                  /\ new.type = IF args.type = "undefined"
                                THEN cur.type ELSE args.type
                  /\ new.project = IF args.project = "undefined"
                                   THEN cur.project ELSE args.project
                  /\ new.tags = IF args.tags = "undefined"
                                THEN cur.tags ELSE args.tags
                  /\ old = cur =>
                       /\ args.content = "undefined" => new.content = old.content
                       /\ args.type = "undefined" => new.type = old.type
                       /\ args.project = "undefined" => new.project = old.project
                       /\ args.tags = "undefined" => new.tags = old.tags]_vars
    /\ [][\A k \in 1..Len(store) :
            store'[k].created_at = store[k].created_at]_vars

\* C27 witness: after an update that changed the type, an update that
\* supplied only the tags succeeded, and the record differs from the
\* stored one in type and tags alone.
C27_Witness ==
    /\ ures = [c \in Requests |-> "ok"]
    /\ uargs[1] = [NoArgs EXCEPT !.id = 1, !.type = "decision"]
    /\ uargs[2] = [NoArgs EXCEPT !.id = 1, !.tags = "[new]"]
    /\ store = <<[StoredMemory EXCEPT !.type = "decision", !.tags = "[new]"]>>


(***************************************************************************)
(* compactMemories (src/src/tools.ts:389-451): the clean-up of the        *)
(* auto-captured records, one action per await, in two requests served    *)
(* by one process.  Instants are counted in days; the strings that        *)
(* toISOString gives have one length and one layout, so they compare as   *)
(* their instants do.                                                      *)
(***************************************************************************)

\* Largest collection compactMemories is run on.
MaxCmpRecs == 3
\* BATCH of the delete loop.
DELETE_BATCH == 2
\* Date.now(), as a day.
Today == 40
\* args.max_age_days ?? 30
DEFAULT_MAX_AGE_DAYS == 30

\* The records a collection is made of, as content, created_at (a day) and
\* source: an old manual save, and auto-captures that are old or
\* yesterday's, with one content or another.
CmpKinds == {<<"fix", 5, "manual">>,
             <<"fix", 5, "hook-auto">>, <<"fix", 39, "hook-auto">>,
             <<"other", 5, "hook-auto">>, <<"other", 39, "hook-auto">>}

\* args of compact_memories: each property supplied or not, a real run
\* and a dry run for the default age and for the age 0.
CompactArgs == {[max_age_days |-> <<>>, dry_run |-> <<>>],
                [max_age_days |-> <<>>, dry_run |-> <<TRUE>>],
                [max_age_days |-> <<0>>, dry_run |-> <<FALSE>>],
                [max_age_days |-> <<0>>, dry_run |-> <<TRUE>>]}

\* The collections a call can find: every record was written by saveMemory
\* ("manual") or by the hook ("hook-auto"), each with its created_at.
CmpRecord(k, content, day, source) ==
    Mem(k, content, Point(content),
        IF source = "hook-auto" THEN "change" ELSE "discovery", "",
        IF source = "hook-auto" THEN "auto" ELSE "[]", day, source)

CmpStores ==
    UNION { { [k \in 1..n |-> CmpRecord(k, g[k][1], g[k][2], g[k][3])] :
              g \in [1..n -> CmpKinds] } :
            n \in 0..MaxCmpRecs }

\* A get with no where clause.
AllSources(recs) == recs

\* where: { source: { $eq: "hook-auto" } }
AutoCaptured(recs) == SelectSeq(recs, LAMBDA r : r.source = "hook-auto")

\* collection.get({ where, limit }): the matching records, in the order
\* they are stored, at most limit of them.
GetAuto(recs, limit) == Slice(AutoCaptured(recs), 0, limit)

\* args.max_age_days ?? 30 and args.dry_run ?? false
MaxAgeDays(args) ==
    IF args.max_age_days = <<>> THEN DEFAULT_MAX_AGE_DAYS
    ELSE args.max_age_days[1]

DryRun(args) == IF args.dry_run = <<>> THEN FALSE ELSE args.dry_run[1]

\* new Date(Date.now() - maxAgeDays * 86400000)
CutoffDate(args) == Today - MaxAgeDays(args)

\* A scan that takes no record for old.
IsOldNever(createdAt, cutoffDate) == FALSE

\* createdAt && createdAt < cutoffDate; a record without created_at reads
\* as "", here -1.
IsOld(createdAt, cutoffDate) == createdAt # -1 /\ createdAt < cutoffDate

\* The scan loop (tools.ts:411-430) from index i on: toDelete, the keys of
\* seen, oldCount and dupCount.
RECURSIVE CompactScan(_, _, _, _)
CompactScan(autoMems, i, cutoffDate, acc) ==
    IF ~(i < Len(autoMems)) THEN acc
    ELSE LET r == autoMems[i + 1] IN
         IF IsOld(r.created_at, cutoffDate)
         THEN CompactScan(autoMems, i + 1, cutoffDate,
                          [acc EXCEPT !.toDelete = Append(@, r.id),
                                      !.oldCount = @ + 1])
         ELSE IF r.content \in acc.seen
         THEN CompactScan(autoMems, i + 1, cutoffDate,
                          [acc EXCEPT !.toDelete = Append(@, r.id),
                                      !.dupCount = @ + 1])
         ELSE CompactScan(autoMems, i + 1, cutoffDate,
                          [acc EXCEPT !.seen = @ \cup {r.content}])

Scan(autoMems, cutoffDate) ==
    CompactScan(autoMems, 0, cutoffDate,
                [toDelete |-> <<>>, seen |-> {}, oldCount |-> 0,
                 dupCount |-> 0])

\* collection.delete({ ids }): the records with these ids are gone; an id
\* that is not stored is passed over.
DeleteIds(recs, ids) ==
    SelectSeq(recs, LAMBDA r : \A k \in 1..Len(ids) : ids[k] # r.id)

\* The object compactMemories returns (tools.ts:441-449), without its
\* cutoff_date, which ccutoff holds.
Report(autoMems, cutoffDate, dryRun, remaining) ==
    LET s == Scan(autoMems, cutoffDate) IN
    [deleted |-> Len(s.toDelete), old_removed |-> s.oldCount,
     duplicates_removed |-> s.dupCount, dry_run |-> dryRun,
     auto_captured_scanned |-> Len(autoMems),
     total_memories_remaining |-> remaining]

InitCmp ==
    /\ store \in CmpStores
    /\ CmpIdle
    /\ hpc = [h \in Hooks |-> "idle"]
    /\ hcontent = [h \in Hooks |-> ""]
    /\ hemb = [h \in Hooks |-> 0]
    /\ hdup = [h \in Hooks |-> FALSE]
    /\ hquery = [h \in Hooks |-> "none"]
    /\ hseen = [h \in Hooks |-> {}]
    /\ hanswered = [h \in Hooks |-> {}]
    /\ htrace = [h \in Hooks |-> <<>>]
    /\ MigIdle
    /\ TokIdle
    /\ SupIdle
    /\ SesIdle
    /\ UpdIdle
    /\ QryIdle
    /\ CtxIdle
    /\ IniIdle

\* A request arrives: getCollection hands out the handle the process
\* holds, the cutoff is computed and count is issued.
CompactCall(c) ==
    /\ cpc[c] = "idle"
    /\ \E args \in CompactArgs :
          /\ cargs' = [cargs EXCEPT ![c] = args]
          /\ ccutoff' = [ccutoff EXCEPT ![c] = CutoffDate(args)]
    /\ cpc' = [cpc EXCEPT ![c] = "count"]
    /\ UNCHANGED <<store, ctotal, cfetched, ctodel, cidx, crep, nonCmpVars>>

\* count settles; the filtered get is issued.  A rejection leaves
\* compactMemories.
CompactCount(c) ==
    /\ cpc[c] = "count"
    /\ \E ok \in BOOLEAN :
          IF ok
          THEN /\ ctotal' = [ctotal EXCEPT ![c] = Len(store)]
               /\ cpc' = [cpc EXCEPT ![c] = "get"]
          ELSE /\ cpc' = [cpc EXCEPT ![c] = "error"]
               /\ UNCHANGED ctotal
    /\ UNCHANGED <<store, cargs, ccutoff, cfetched, ctodel, cidx, crep,
                   nonCmpVars>>

\* The get settles and the scan runs.  A dry run returns; a run with
\* nothing to delete goes to the final count; otherwise the first delete is
\* issued.
CompactGet(c) ==
    /\ cpc[c] = "get"
    /\ \E ok \in BOOLEAN :
          IF ~ok
          THEN /\ cpc' = [cpc EXCEPT ![c] = "error"]
               /\ UNCHANGED <<cfetched, ctodel, crep>>
          ELSE LET autoMems == GetAuto(store, ctotal[c])
                   toDelete == Scan(autoMems, ccutoff[c]).toDelete
                   dryRun == DryRun(cargs[c])
               IN /\ cfetched' = [cfetched EXCEPT ![c] = autoMems]
                  /\ ctodel' = [ctodel EXCEPT ![c] = toDelete]
                  /\ IF ~dryRun /\ Len(toDelete) > 0
                     THEN /\ cpc' = [cpc EXCEPT ![c] = "delete"]
                          /\ UNCHANGED crep
                     ELSE IF dryRun
                     THEN /\ cpc' = [cpc EXCEPT ![c] = "done"]
                          /\ crep' = [crep EXCEPT ![c] =
                                        Report(autoMems, ccutoff[c], dryRun,
                                               ctotal[c])]
                     ELSE /\ cpc' = [cpc EXCEPT ![c] = "recount"]
                          /\ UNCHANGED crep
    /\ UNCHANGED <<store, cargs, ccutoff, ctotal, cidx, nonCmpVars>>

\* A delete of the loop settles: the batch is gone, and the next batch or
\* the final count is issued.  A rejection leaves compactMemories with the
\* earlier batches deleted.
CompactDelete(c) ==
    /\ cpc[c] = "delete"
    /\ \E ok \in BOOLEAN :
          IF ok
          THEN /\ store' = DeleteIds(store, Slice(ctodel[c], cidx[c],
                                                  cidx[c] + DELETE_BATCH))
               /\ cidx' = [cidx EXCEPT ![c] = @ + DELETE_BATCH]
               /\ cpc' = [cpc EXCEPT ![c] =
                            IF cidx'[c] < Len(ctodel[c]) THEN "delete"
                            ELSE "recount"]
          ELSE /\ cpc' = [cpc EXCEPT ![c] = "error"]
               /\ UNCHANGED <<store, cidx>>
    /\ UNCHANGED <<cargs, ccutoff, ctotal, cfetched, ctodel, crep,
                   nonCmpVars>>

\* The final count settles and the report is returned.
CompactRecount(c) ==
    /\ cpc[c] = "recount"
    /\ \E ok \in BOOLEAN :
          IF ok
          THEN /\ crep' = [crep EXCEPT ![c] =
                             Report(cfetched[c], ccutoff[c],
                                    DryRun(cargs[c]), Len(store))]
               /\ cpc' = [cpc EXCEPT ![c] = "done"]
          ELSE /\ cpc' = [cpc EXCEPT ![c] = "error"]
               /\ UNCHANGED crep
    /\ UNCHANGED <<store, cargs, ccutoff, ctotal, cfetched, ctodel, cidx,
                   nonCmpVars>>

NextCmp ==
    \/ \E c \in Requests : CompactCall(c)
    \/ \E c \in Requests : CompactCount(c)
    \/ \E c \in Requests : CompactGet(c)
    \/ \E c \in Requests : CompactDelete(c)
    \/ \E c \in Requests : CompactRecount(c)

SpecCmp == InitCmp /\ [][NextCmp]_vars


(***************************************************************************)
(* Claims about compactMemories.                                          *)
(***************************************************************************)

\* The request has returned its report, from a real run or from a dry run.
RealDone(c) == cpc[c] = "done" /\ ~DryRun(cargs[c])
DryDone(c) == cpc[c] = "done" /\ DryRun(cargs[c])

\* The request takes a step.
CmpStep(c) == <<cpc[c], cidx[c]>>' # <<cpc[c], cidx[c]>>

\* C28: no step of compactMemories removes or alters a record whose source
\* is not "hook-auto", whatever max_age_days and dry_run are; no step of a
\* dry run changes the collection; and a dry run reports the deleted,
\* old_removed and duplicates_removed that a real run reports which got
\* the same records from the collection and has the same cutoff.
C28_ManualUntouched ==
    /\ [][/\ \A k \in 1..Len(store) :
               store[k].source # "hook-auto"
                   => \E j \in 1..Len(store') : store'[j] = store[k]
          /\ \A c \in Requests :
               CmpStep(c) /\ DryRun(cargs'[c]) => store' = store]_vars
    /\ [](\A c, d \in Requests :
            /\ DryDone(c) /\ RealDone(d)
            /\ cfetched[c] = cfetched[d] /\ ccutoff[c] = ccutoff[d]
            => /\ crep[c].deleted = crep[d].deleted
               /\ crep[c].old_removed = crep[d].old_removed
               /\ crep[c].duplicates_removed = crep[d].duplicates_removed
               /\ crep[c].dry_run /\ ~crep[d].dry_run)

\* An old manual save is still stored after a real run deleted two
\* records, and a dry run that got the same records reported the same.
C28_Witness ==
    /\ DryDone(1) /\ RealDone(2)
    /\ cfetched[1] = cfetched[2] /\ ccutoff[1] = ccutoff[2]
    /\ crep[2].deleted = 2
    /\ Len(store) < crep[1].total_memories_remaining
    /\ \E k \in 1..Len(store) :
          store[k].source = "manual" /\ store[k].created_at < ccutoff[2]

\* The record is the first one of the scan that is not old and has its
\* content.
FirstSeen(autoMems, cutoffDate, k) ==
    /\ ~(autoMems[k].created_at < cutoffDate)
    /\ \A j \in 1..(k - 1) :
          autoMems[j].created_at < cutoffDate
          \/ autoMems[j].content # autoMems[k].content

\* C29: when compactMemories with dry_run = false has returned, no
\* auto-captured record older than its cutoff is stored, no two stored
\* auto-captured records have the same content, of the records it scanned
\* it put on toDelete all but the first seen of each content among those
\* not old, the records on toDelete are stored no more, and deleted =
\* old_removed + duplicates_removed = the length of toDelete.
C29_Compacted ==
    \A c \in Requests :
       RealDone(c) =>
          /\ \A k \in 1..Len(store) :
                store[k].source = "hook-auto"
                    => ~(store[k].created_at < ccutoff[c])
          /\ \A j, k \in 1..Len(store) :
                /\ j < k
                /\ store[j].source = "hook-auto"
                /\ store[k].source = "hook-auto"
                => store[j].content # store[k].content
          /\ \A k \in 1..Len(cfetched[c]) :
                FirstSeen(cfetched[c], ccutoff[c], k)
                    <=> \A i \in 1..Len(ctodel[c]) :
                           ctodel[c][i] # cfetched[c][k].id
          /\ \A k \in 1..Len(cfetched[c]) :
                ~FirstSeen(cfetched[c], ccutoff[c], k)
                    => ~InStore(cfetched[c][k].id)
          /\ crep[c].deleted = crep[c].old_removed + crep[c].duplicates_removed
          /\ crep[c].deleted = Len(ctodel[c])

\* A real run removed an old record and a duplicate and kept the first
\* record of the duplicated content.
C29_Witness ==
    /\ RealDone(1)
    /\ crep[1].old_removed >= 1
    /\ crep[1].duplicates_removed >= 1
    /\ cidx[1] >= Len(ctodel[1])
    /\ \E k \in 1..Len(store) :
          /\ store[k].source = "hook-auto"
          /\ \E j \in 1..Len(cfetched[1]) :
                /\ cfetched[1][j].content = store[k].content
                /\ ~InStore(cfetched[1][j].id)


(***************************************************************************)
(* queryMemories, searchMemory and getContext (src/src/tools.ts:54-174),  *)
(* one request.  Distances are in hundredths as in the duplicate check,   *)
(* similarities in thousandths.                                            *)
(***************************************************************************)

\* Largest collection that is searched.
MaxQryRecs == 3
\* args.limit ?? 10 (queryMemories), args.limit ?? 20 and
\* args.max_tokens ?? 2000 (getContext)
DEFAULT_LIMIT == 10
CONTEXT_LIMIT == 20
CONTEXT_MAX_TOKENS == 2000

Max(a, b) == IF a >= b THEN a ELSE b

\* The characters of a string.
Chars(text) == [k \in 1..Len(text) |-> SubSeq(text, k, k)]

\* The collections a search can find: manual saves and auto-captures.
QryRecord(k, content, source) ==
    Mem(k, content, Point(content),
        IF source = "hook-auto" THEN "change" ELSE "discovery", "",
        IF source = "hook-auto" THEN "auto" ELSE "[]", k, source)

QryStores ==
    UNION { { [k \in 1..n |-> QryRecord(k, g[k][1], g[k][2])] :
              g \in [1..n -> HookContents \X {"manual", "hook-auto"}] } :
            n \in 0..MaxQryRecs }

\* The tools, and their args: query, and limit, type and max_tokens
\* supplied (<<v>>) or not (<<>>); project is not supplied.
QueryTools == {"search_memory", "get_context"}
QueryArgs == [query : {"fix", "other"},
              limit : {<<>>, <<1>>},
              type : {<<>>, <<"change">>},
              max_tokens : {<<>>, <<1>>, <<2>>}]

\* The where filter built from args (tools.ts:67-77).
Matches(r, args) == args.type = <<>> \/ r.type = args.type[1]

\* collection.query({ queryTexts, nResults, where }): the ways the store
\* can answer, each the nResults nearest matching records by ascending
\* distance to the embedded query, records at one distance in any order.
QueryResults(recs, args, nResults) ==
    LET q == Point(args.query)
        M == {k \in 1..Len(recs) : Matches(recs[k], args)}
        m == Min(nResults, Cardinality(M))
        D(k) == Distance(recs[k].emb, q)
    IN { [i \in 1..m |-> [rec |-> recs[f[i]], distance |-> D(f[i])]] :
         f \in { g \in [1..m -> M] :
                   /\ \A i, j \in 1..m : i < j => g[i] # g[j]
                   /\ \A i, j \in 1..m : i < j => D(g[i]) <= D(g[j])
                   /\ \A k \in M :
                        (\A i \in 1..m : g[i] # k)
                            => \A i \in 1..m : D(g[i]) <= D(k) } }

\* isAutoCapture ? 0 : 0.05
SourceBoost(source) == IF source = "hook-auto" THEN 0 ELSE 5

\* Math.round(x * 1000) / 1000 of a number of hundredths, in thousandths.
RoundToThousandths(hundredths) == 10 * hundredths

\* Math.round(Math.max(0, Math.min(1, (1 - distance) + sourceBoost)) * 1000)
\*     / 1000
Similarity(distance, source) ==
    RoundToThousandths(
        Max(0, Min(100, (100 - distance) + SourceBoost(source))))

\* The ScoredMemory built from a result row (tools.ts:91-110).
Scored(row) ==
    [id |-> row.rec.id, content |-> Chars(row.rec.content),
     type |-> row.rec.type, project |-> row.rec.project,
     tags |-> row.rec.tags,
     similarity |-> Similarity(row.distance, row.rec.source),
     created_at |-> row.rec.created_at,
     tokens |-> estimateTokens(Chars(row.rec.content))]

\* ids.map(...): the rows in the order the store returned them.
ScoredList(rows) == [i \in 1..Len(rows) |-> Scored(rows[i])]

\* The limit queryMemories is called with, and the nResults it asks for.
QueryLimit(tool, args) ==
    IF args.limit # <<>> THEN args.limit[1]
    ELSE IF tool = "get_context" THEN CONTEXT_LIMIT ELSE DEFAULT_LIMIT

\* searchMemory and getContext hand the list to applyTokenBudget: getContext
\* always, searchMemory when max_tokens is supplied and the list is not
\* empty.
CallsAllocator(tool, args, mems) ==
    \/ tool = "get_context"
    \/ args.max_tokens # <<>> /\ Len(mems) > 0

\* The maxTokens of that call.
QueryMaxTokens(tool, args) ==
    IF args.max_tokens # <<>> THEN args.max_tokens[1] ELSE CONTEXT_MAX_TOKENS

\* mems.map(({ tokens: _t, ...rest }) => rest)
StripTokens(mems) ==
    [i \in 1..Len(mems) |->
        [f \in DOMAIN mems[i] \ {"tokens"} |-> mems[i][f]]]

\* What the tool answers with: the memories (searchMemory returns them
\* without their tokens, getContext formats the selected ones), and
\* searchMemory's truncated where it has one.
Answer(tool, args, mems) ==
    IF CallsAllocator(tool, args, mems)
    THEN LET selected == applyTokenBudget(mems, QueryMaxTokens(tool, args))
                             .selected
         IN IF tool = "get_context"
            THEN [results |-> selected, truncated |-> "absent"]
            ELSE [results |-> StripTokens(selected),
                  truncated |-> IF Len(selected) < Len(mems) THEN "true"
                                ELSE "false"]
    ELSE [results |-> StripTokens(mems), truncated |-> "absent"]

InitQry ==
    /\ store \in QryStores
    /\ QryIdle
    /\ CtxIdle
    /\ IniIdle
    /\ hpc = [h \in Hooks |-> "idle"]
    /\ hcontent = [h \in Hooks |-> ""]
    /\ hemb = [h \in Hooks |-> 0]
    /\ hdup = [h \in Hooks |-> FALSE]
    /\ hquery = [h \in Hooks |-> "none"]
    /\ hseen = [h \in Hooks |-> {}]
    /\ hanswered = [h \in Hooks |-> {}]
    /\ htrace = [h \in Hooks |-> <<>>]
    /\ MigIdle
    /\ TokIdle
    /\ SupIdle
    /\ SesIdle
    /\ UpdIdle
    /\ CmpIdle

\* search_memory or get_context is called; queryMemories issues its query.
QueryCall ==
    /\ qpc = "idle"
    /\ \E tool \in QueryTools, args \in QueryArgs :
          /\ qtool' = tool
          /\ qargs' = args
    /\ qpc' = "query"
    /\ UNCHANGED <<store, qcands, qout, nonQryVars>>

\* The query settles: queryMemories maps the rows, and the tool builds its
\* answer.  A rejection leaves the tool.
QueryAnswer ==
    /\ qpc = "query"
    /\ \E ok \in BOOLEAN :
          IF ok
          THEN \E rows \in QueryResults(store, qargs,
                                        QueryLimit(qtool, qargs)) :
                  /\ qcands' = ScoredList(rows)
                  /\ qout' = Answer(qtool, qargs, qcands')
                  /\ qpc' = "done"
          ELSE /\ qpc' = "error"
               /\ UNCHANGED <<qcands, qout>>
    /\ UNCHANGED <<store, qtool, qargs, nonQryVars>>

NextQry ==
    \/ QueryCall
    \/ QueryAnswer

SpecQry == InitQry /\ [][NextQry]_vars

(***************************************************************************)
(* Claims about queryMemories.                                             *)
(***************************************************************************)

\* C30: the list queryMemories returned is in descending similarity order:
\* for all positions i < j, similarity[i] >= similarity[j]; so it is on
\* every call of applyTokenBudget from searchMemory and getContext.
C30_Descending ==
    qpc = "done" =>
       \A i, j \in 1..Len(qcands) :
          i < j => qcands[i].similarity >= qcands[j].similarity

\* The same for the lists that are handed to applyTokenBudget.
C30_AllocatorPrecondition ==
    qpc = "done" /\ CallsAllocator(qtool, qargs, qcands) =>
       \A i \in 1..(Len(qcands) - 1) :
          qcands[i].similarity >= qcands[i + 1].similarity


(***************************************************************************)
(* The text applyTokenBudget returns, measured again.                      *)
(***************************************************************************)

\* The estimate of the contents as they are returned.
RECURSIVE SumEstimates(_)
SumEstimates(sel) ==
    IF sel = <<>> THEN 0
    ELSE estimateTokens(Head(sel).content) + SumEstimates(Tail(sel))

\* C31: for maxTokens >= 0, the estimates ceil(length / 4) of the contents
\* of the selected items as they are returned, the truncation marker of a
\* truncated item included, sum to at most maxTokens.
C31_ReturnedTextFits ==
    (calls >= 1 /\ budget2 >= 0) =>
        SumEstimates(result2.selected) <= budget2


(***************************************************************************)
(* The session record under saves that overlap endSession.                 *)
(***************************************************************************)

\* C32: once endSession has completed, the persisted memory_count is the
\* number of memories stored with the session's id (deletions apart),
\* whatever way the saveMemory calls interleave with the awaits of
\* endSession, a save that is stored and tracked after the snapshot or
\* after endSession finished included.
C32_NoLostUpdate ==
    ClosedWritten => SessionRecord.memory_count = String(tagged)

\* C38: the record endSession wrote is one snapshot of the counters: every
\* type in its types_seen, and every project in its projects, is that of
\* an activity counted in its memory_count.
C38_OneSnapshot ==
    ClosedWritten =>
        /\ SessionRecord.memory_count = String(callLen)
        /\ Range(SessionRecord.types_seen) \subseteq TypesOf(callLen)
        /\ Range(SessionRecord.projects) \subseteq ProjectsOf(callLen)


(***************************************************************************)
(* Two updateMemory calls on one record.                                   *)
(***************************************************************************)

\* C37: when two updateMemory calls on the same id, one supplying only
\* content and the other only tags, have both completed, in whatever way
\* their awaits interleaved, the record has the new content and the new
\* tags.
C37_BothTakeEffect ==
    \A c, d \in Requests :
       (/\ ures[c] = "ok" /\ ures[d] = "ok"
        /\ uargs[c] = [NoArgs EXCEPT !.id = 1, !.content = "other"]
        /\ uargs[d] = [NoArgs EXCEPT !.id = 1, !.tags = "[new]"])
       => /\ RecordOf(store, 1).content = "other"
          /\ RecordOf(store, 1).tags = "[new]"


(***************************************************************************)
(* searchMemory's truncated.                                               *)
(***************************************************************************)

\* C39: in a searchMemory call with max_tokens, truncated = false only when
\* the results are the whole candidate list with every content as
\* queryMemories returned it; when a candidate was dropped or its content
\* cut, truncated = true.
C39_TruncatedTellsCuts ==
    (qpc = "done" /\ qtool = "search_memory" /\ qargs.max_tokens # <<>>) =>
        /\ qout.truncated = "false" => qout.results = StripTokens(qcands)
        /\ qout.results # StripTokens(qcands) => qout.truncated = "true"


(***************************************************************************)
(* More claims about the migration.                                        *)
(***************************************************************************)

\* C33: on the full path deleteCollection is issued only when count and
\* every get of the read loop have returned, with every record read; a
\* count or a get that throws ends the migration with the collection and
\* its records as the run found them and the marker not written.
C33_DeleteAfterReads ==
    /\ [][(pc' = "migDelete" /\ pc # "migDelete")
            => /\ pc = "migRead"
               /\ count = Len(coll.recs)
               /\ ~(offset' < count)
               /\ Len(allIds') = count
               /\ coll' = coll]_vars
    /\ [][(pc \in {"migCount", "migRead"} /\ migPath' = "failed")
            => /\ coll' = coll
               /\ coll = pre
               /\ coll.exists
               /\ ~marker']_vars
    /\ [][(pc = "initGoc" /\ coll.exists) => (coll' = coll /\ marker' = marker)]_vars

\* C33 witness: the second get of the read loop threw, and the run has its
\* handle on the collection it found.
C33_Witness ==
    /\ migPath = "failed"
    /\ pc = "ready"
    /\ offset = BATCH
    /\ offset < count
    /\ ~marker
    /\ coll = pre

C36_BatchCoverage ==
    /\ []((pc \in {"migRead", "migDelete", "migCreate", "migUpsert"}) =>
            /\ offset % BATCH = 0
            /\ Len(allIds) = Min(offset, count)
            /\ Len(allDocs) = Len(allIds)
            /\ Len(allMetas) = Len(allIds)
            /\ Len(allEmbeddings) = Len(allIds)
            /\ \A k \in 1..Len(allIds) : ReadRecord(k) = pre.recs[k]
            /\ pc = "migRead" => offset < count
            /\ pc # "migRead" => Len(allIds) = Len(pre.recs))
    /\ [](pc = "migUpsert" =>
            /\ idx % BATCH = 0
            /\ idx < Len(allIds)
            /\ coll.recs = SubSeq(pre.recs, 1, idx))
    /\ []((pc = "initGoc" /\ migPath = "full") => coll.recs = pre.recs)
    /\ [][(pc = "migRead" /\ pc' # "initGoc")
            => /\ offset' = offset + BATCH
               /\ allIds' = allIds \o
                     [k \in 1..(Min(offset + BATCH, count) - offset) |->
                        pre.recs[offset + k].id]]_vars
    /\ [][(pc = "migUpsert" /\ coll' # coll)
            => /\ idx' = idx + BATCH
               /\ coll'.recs = coll.recs \o
                     SubSeq(pre.recs, idx + 1,
                            Min(idx + BATCH, Len(allIds)))]_vars

\* C36 witness: a migration in two batches of records that differ has
\* filled the new collection.
C36_Witness ==
    /\ pc = "initGoc"
    /\ migPath = "full"
    /\ Len(allIds) > BATCH
    /\ coll.recs = pre.recs
    /\ coll.space = "cosine"
    /\ pre.recs[1].doc # pre.recs[Len(pre.recs)].doc


(***************************************************************************)
(* The SessionStart hook: main and getRecentMemories.  The hook reads the  *)
(* collection over HTTP while it runs; nothing else writes here.           *)
(***************************************************************************)

\* Largest collection the hook reads.
MaxCtxRecs == 4
\* MAX_MEMORIES of the hook.
MAX_MEMORIES == 3

\* The projects of the stored records, and what projectFromCwd makes of
\* the cwd: a project, or "" for a cwd without a segment.
CtxProjects == {"p", "q"}
CwdProjects == {"", "p"}
\* created_at of the stored records, as days: timestamps of one format,
\* which localeCompare orders as the days are ordered.
CtxDays == {1, 2}

\* A stored record: id k, saved for a project on a day.
CtxRecord(k, project, day) ==
    Mem(k, "fix", Point("fix"), "discovery", project, "[]", day, "manual")

CtxStores ==
    UNION { { [k \in 1..n |-> CtxRecord(k, g[k][1], g[k][2])] :
              g \in [1..n -> CtxProjects \X CtxDays] } :
            n \in 0..MaxCtxRecs }

fetchLimit == MAX_MEMORIES * 3

\* The Memory fetchFromChroma makes of a row.
CtxMemory(m) ==
    [id |-> m.id, content |-> m.content, type |-> m.type,
     project |-> m.project, tags |-> m.tags, created_at |-> m.created_at]

\* fetchFromChroma with a reply that is ok: the first fetchLimit records,
\* of the project where a where is given (<<project>>), of all without
\* (<<>>).
fetchFromChroma(recs, where) ==
    LET hit == SelectSeq(recs, LAMBDA m : where = <<>> \/ m.project = where[1])
        got == SubSeq(hit, 1, Min(Len(hit), fetchLimit))
    IN  [k \in 1..Len(got) |-> CtxMemory(got[k])]

\* memories.length < MAX_MEMORIES / 2
Supplement(mems) == 2 * Len(mems) < MAX_MEMORIES

\* [...memories, ...global.filter(m => !existing.has(m.id))]
Merge(mems, global) ==
    LET existingIds == {mems[k].id : k \in 1..Len(mems)}
    IN  mems \o SelectSeq(global, LAMBDA m : m.id \notin existingIds)

\* memories.sort((a, b) => b.created_at.localeCompare(a.created_at)): the
\* later first, and of two of one created_at the one that stood first.
SortRecent(mems) ==
    LET n == Len(mems)
        Before(j, i) == \/ mems[j].created_at > mems[i].created_at
                        \/ /\ mems[j].created_at = mems[i].created_at
                           /\ j < i
        Rank(i) == Cardinality({j \in 1..n : Before(j, i)}) + 1
    IN  [k \in 1..n |-> mems[CHOOSE i \in 1..n : Rank(i) = k]]

\* What getRecentMemories returns of its list.
Recent(mems) ==
    LET sorted == SortRecent(mems)
    IN  SubSeq(sorted, 1, Min(Len(sorted), MAX_MEMORIES))

InitCtx ==
    /\ store \in CtxStores
    /\ CtxIdle
    /\ IniIdle
    /\ hpc = [h \in Hooks |-> "idle"]
    /\ hcontent = [h \in Hooks |-> ""]
    /\ hemb = [h \in Hooks |-> 0]
    /\ hdup = [h \in Hooks |-> FALSE]
    /\ hquery = [h \in Hooks |-> "none"]
    /\ hseen = [h \in Hooks |-> {}]
    /\ hanswered = [h \in Hooks |-> {}]
    /\ htrace = [h \in Hooks |-> <<>>]
    /\ MigIdle
    /\ TokIdle
    /\ SupIdle
    /\ SesIdle
    /\ UpdIdle
    /\ CmpIdle
    /\ QryIdle

\* main reads stdin, takes the project of the cwd and asks for the
\* heartbeat.
CtxStart ==
    /\ xpc = "idle"
    /\ xproject' \in CwdProjects
    /\ xpc' = "heartbeat"
    /\ UNCHANGED <<store, xtotal, xmems, xproj, xsupp, xout, nonCtxVars>>

\* isChromaAlive settles: without a server the hook prints an empty
\* context.
CtxAlive ==
    /\ xpc = "heartbeat"
    /\ \E alive \in BOOLEAN :
          xpc' = IF alive THEN "collections" ELSE "silent"
    /\ UNCHANGED <<store, xproject, xtotal, xmems, xproj, xsupp, xout,
                   nonCtxVars>>

\* getCollectionId settles: without the collection the hook prints an
\* empty context, and so it does when the request throws.
CtxCollection ==
    /\ xpc = "collections"
    /\ \E found \in BOOLEAN :
          xpc' = IF found THEN "count" ELSE "silent"
    /\ UNCHANGED <<store, xproject, xtotal, xmems, xproj, xsupp, xout,
                   nonCtxVars>>

\* The count settles (total stays 0 when it fails), and getRecentMemories
\* issues its first fetch: the project's where there is one.
CtxTotal ==
    /\ xpc = "count"
    /\ \E ok \in BOOLEAN :
          xtotal' = IF ok THEN Len(store) ELSE 0
    /\ xpc' = IF xproject # "" THEN "project" ELSE "global"
    /\ xsupp' = (xproject = "")
    /\ UNCHANGED <<store, xproject, xmems, xproj, xout, nonCtxVars>>

\* The project-scoped fetch settles (a reply that is not ok gives no
\* memories; a throw ends the hook with an empty context); with too few
\* the global fetch is issued, else the list is sorted, cut and returned.
CtxFetchProject ==
    /\ xpc = "project"
    /\ \E reply \in {"ok", "not ok", "throw"} :
          IF reply = "throw"
          THEN /\ xpc' = "silent"
               /\ UNCHANGED <<xmems, xproj, xsupp, xout>>
          ELSE /\ xmems' = IF reply = "ok"
                           THEN fetchFromChroma(store, <<xproject>>)
                           ELSE <<>>
               /\ xproj' = xmems'
               /\ IF Supplement(xmems')
                  THEN /\ xpc' = "global"
                       /\ xsupp' = TRUE
                       /\ UNCHANGED xout
                  ELSE /\ xpc' = "done"
                       /\ xout' = Recent(xmems')
                       /\ UNCHANGED xsupp
    /\ UNCHANGED <<store, xproject, xtotal, nonCtxVars>>

\* The global fetch settles: what is not yet in memories is added, and the
\* list is sorted, cut and returned.
CtxFetchGlobal ==
    /\ xpc = "global"
    /\ \E reply \in {"ok", "not ok", "throw"} :
          IF reply = "throw"
          THEN /\ xpc' = "silent"
               /\ UNCHANGED <<xmems, xout>>
          ELSE /\ xmems' = Merge(xmems, IF reply = "ok"
                                        THEN fetchFromChroma(store, <<>>)
                                        ELSE <<>>)
               /\ xout' = Recent(xmems')
               /\ xpc' = "done"
    /\ UNCHANGED <<store, xproject, xtotal, xproj, xsupp, nonCtxVars>>

NextCtx ==
    \/ CtxStart
    \/ CtxAlive
    \/ CtxCollection
    \/ CtxTotal
    \/ CtxFetchProject
    \/ CtxFetchGlobal

SpecCtx == InitCtx /\ [][NextCtx]_vars

(***************************************************************************)
(* Claims about getRecentMemories.                                         *)
(***************************************************************************)

\* The list returned has at most MAX_MEMORIES memories, no id twice, the
\* later created_at first; and with too few memories of the project the
\* global fetch was issued.
RecentBoundedDistinctSorted ==
    xpc = "done" =>
       /\ Len(xout) <= MAX_MEMORIES
       /\ \A i, j \in 1..Len(xout) : i # j => xout[i].id # xout[j].id
       /\ \A i, j \in 1..Len(xout) :
             i < j => xout[i].created_at >= xout[j].created_at
       /\ Supplement(xproj) => xsupp

\* C40: getRecentMemories returns at most MAX_MEMORIES memories, no id
\* twice, ordered by created_at descending; when the project-scoped fetch
\* yields fewer than half of MAX_MEMORIES, the global memories are added
\* and every memory of the project-scoped fetch is in the list returned.
C40_ProjectMemoriesKept ==
    xpc = "done" =>
       /\ Len(xout) <= MAX_MEMORIES
       /\ \A i, j \in 1..Len(xout) : i # j => xout[i].id # xout[j].id
       /\ \A i, j \in 1..Len(xout) :
             i < j => xout[i].created_at >= xout[j].created_at
       /\ Supplement(xproj) =>
             /\ xsupp
             /\ Range(xproj) \subseteq Range(xout)

(***************************************************************************)
(* initChroma called twice in one process: the two calls run on one event  *)
(* loop and interleave at their awaits; they share _collection, the        *)
(* engine, the marker and the collection.                                  *)
(***************************************************************************)

\* Largest collection the calls find.
MaxIniRecs == 3

\* The data directories the process can start on: no collection, or an L2
\* collection of 0..MaxIniRecs records; the engine down or up.
IniColls ==
    {Absent} \cup
    { [exists |-> TRUE, space |-> "l2",
       recs |-> [k \in 1..n |-> [id |-> k, doc |-> "a", meta |-> "manual",
                                 emb |-> 0]]] : n \in 0..MaxIniRecs }

InitIni ==
    /\ iserver \in {"down", "up"}
    /\ imarker = FALSE
    /\ icoll \in IniColls
    /\ igen = IF icoll.exists THEN 1 ELSE 0
    /\ NoCalls
    /\ MigIdle
    /\ TokIdle
    /\ SupIdle
    /\ SesIdle
    /\ DupIdle
    /\ UpdIdle
    /\ CmpIdle
    /\ QryIdle
    /\ CtxIdle

\* The collection that the col or newCol of call c refers to is there.
Live(c) == icoll.exists /\ icol[c] = igen

\* The creation number after getOrCreateCollection.
GenAfterCreate == IF icoll.exists THEN igen ELSE igen + 1

\* startChromaServer has returned: migrateToCosinIfNeeded checks the marker
\* and returns, or calls listCollections.
AfterServer == IF imarker THEN "goc" ELSE "list"

\* The catch block of migrateToCosinIfNeeded, and the return after the
\* marker is written or its write has thrown: on to getOrCreateCollection.
IniCatch(c) == ipc' = [ipc EXCEPT ![c] = "goc"]

IniWriteMarker(c, wok) ==
    /\ imarker' = (imarker \/ wok)
    /\ IniCatch(c)

\* initChroma is called: with _collection set it returns it, else it calls
\* startChromaServer, which asks for the heartbeat.
IniCall(c) ==
    /\ ipc[c] = "idle"
    /\ IF icollection # NoHandle
       THEN /\ iret' = [iret EXCEPT ![c] = icollection]
            /\ ipc' = [ipc EXCEPT ![c] = "returned"]
       ELSE /\ ipc' = [ipc EXCEPT ![c] = "probe"]
            /\ UNCHANGED iret
    /\ UNCHANGED <<iserver, imarker, icoll, igen, icollection, icol, icount,
                   ioff, iall, iidx, ilaunched, ideleted, nonIniVars>>

\* The first heartbeat settles: with an answer startChromaServer returns,
\* without one it spawns the sidecar and starts to poll.
IniProbe(c) ==
    /\ ipc[c] = "probe"
    /\ IF iserver = "up"
       THEN /\ ipc' = [ipc EXCEPT ![c] = AfterServer]
            /\ UNCHANGED ilaunched
       ELSE /\ ilaunched' = [ilaunched EXCEPT ![c] = @ + 1]
            /\ ipc' = [ipc EXCEPT ![c] = "poll"]
    /\ UNCHANGED <<iserver, imarker, icoll, igen, icollection, icol, icount,
                   ioff, iall, iidx, iret, ideleted, nonIniVars>>

\* A heartbeat of the poll loop settles: with an answer startChromaServer
\* returns; without one the loop goes on, or it was the last round and
\* startChromaServer throws.
IniPoll(c) ==
    /\ ipc[c] = "poll"
    /\ IF iserver = "up"
       THEN ipc' = [ipc EXCEPT ![c] = AfterServer]
       ELSE \E last \in BOOLEAN :
               ipc' = [ipc EXCEPT ![c] = IF last THEN "threw" ELSE "poll"]
    /\ UNCHANGED <<iserver, imarker, icoll, igen, icollection, icol, icount,
                   ioff, iall, iidx, iret, ilaunched, ideleted, nonIniVars>>

\* A sidecar that was spawned starts to answer.
ChildServes ==
    /\ iserver = "down"
    /\ \E c \in Callers : ilaunched[c] > 0
    /\ iserver' = "up"
    /\ UNCHANGED <<imarker, icoll, igen, icollection, ipc, icol, icount, ioff,
                   iall, iidx, iret, ilaunched, ideleted, nonIniVars>>

\* await client.listCollections()
IniList(c) ==
    /\ ipc[c] = "list"
    /\ \E ok \in BOOLEAN, wok \in BOOLEAN :
          IF ~ok THEN IniCatch(c) /\ UNCHANGED imarker
          ELSE IF ~icoll.exists
               THEN IniWriteMarker(c, wok)
               ELSE /\ ipc' = [ipc EXCEPT ![c] = "getcol"]
                    /\ UNCHANGED imarker
    /\ UNCHANGED <<iserver, icoll, igen, icollection, icol, icount, ioff,
                   iall, iidx, iret, ilaunched, ideleted, nonIniVars>>

\* await client.getCollection(...): it throws when the collection is gone.
IniGetCol(c) ==
    /\ ipc[c] = "getcol"
    /\ \E ok \in {b \in BOOLEAN : b => icoll.exists} :
          IF ~ok THEN IniCatch(c) /\ UNCHANGED icol
          ELSE /\ icol' = [icol EXCEPT ![c] = igen]
               /\ ipc' = [ipc EXCEPT ![c] = "count"]
    /\ UNCHANGED <<iserver, imarker, icoll, igen, icollection, icount, ioff,
                   iall, iidx, iret, ilaunched, ideleted, nonIniVars>>

\* await col.count()
IniCount(c) ==
    /\ ipc[c] = "count"
    /\ \E ok \in {b \in BOOLEAN : b => Live(c)} :
          IF ~ok THEN IniCatch(c) /\ UNCHANGED icount
          ELSE /\ icount' = [icount EXCEPT ![c] = Len(icoll.recs)]
               /\ ipc' = [ipc EXCEPT ![c] = IF icount'[c] = 0 THEN "delempty"
                                           ELSE "read"]
    /\ UNCHANGED <<iserver, imarker, icoll, igen, icollection, icol, ioff,
                   iall, iidx, iret, ilaunched, ideleted, nonIniVars>>

\* await client.deleteCollection(...) of the empty case
IniDelEmpty(c) ==
    /\ ipc[c] = "delempty"
    /\ \E ok \in {b \in BOOLEAN : b => icoll.exists}, wok \in BOOLEAN :
          IF ~ok THEN IniCatch(c) /\ UNCHANGED <<imarker, icoll>>
          ELSE /\ icoll' = Absent
               /\ IniWriteMarker(c, wok)
    /\ UNCHANGED <<iserver, igen, icollection, icol, icount, ioff, iall,
                   iidx, iret, ilaunched, ideleted, nonIniVars>>

\* await col.get({limit: BATCH, offset, include})
IniRead(c) ==
    /\ ipc[c] = "read"
    /\ \E ok \in {b \in BOOLEAN : b => Live(c)} :
          IF ~ok THEN IniCatch(c) /\ UNCHANGED <<ioff, iall>>
          ELSE /\ iall' = [iall EXCEPT ![c] =
                              @ \o Slice(icoll.recs, ioff[c], ioff[c] + BATCH)]
               /\ ioff' = [ioff EXCEPT ![c] = @ + BATCH]
               /\ ipc' = [ipc EXCEPT ![c] = IF ioff'[c] < icount[c] THEN "read"
                                           ELSE "delete"]
    /\ UNCHANGED <<iserver, imarker, icoll, igen, icollection, icol, icount,
                   iidx, iret, ilaunched, ideleted, nonIniVars>>

\* await client.deleteCollection(...) of the full path
IniDelete(c) ==
    /\ ipc[c] = "delete"
    /\ \E ok \in {b \in BOOLEAN : b => icoll.exists} :
          IF ~ok THEN IniCatch(c) /\ UNCHANGED <<icoll, ideleted>>
          ELSE /\ icoll' = Absent
               /\ ideleted' = [ideleted EXCEPT ![c] = @ + 1]
               /\ ipc' = [ipc EXCEPT ![c] = "create"]
    /\ UNCHANGED <<iserver, imarker, igen, icollection, icol, icount, ioff,
                   iall, iidx, iret, ilaunched, nonIniVars>>

\* await client.getOrCreateCollection(...) of the migration
IniCreate(c) ==
    /\ ipc[c] = "create"
    /\ \E ok \in BOOLEAN, wok \in BOOLEAN :
          IF ~ok
          THEN IniCatch(c) /\ UNCHANGED <<imarker, icoll, igen, icol, iidx>>
          ELSE /\ icoll' = GetOrCreate(icoll, MigCreateSpace)
               /\ igen' = GenAfterCreate
               /\ icol' = [icol EXCEPT ![c] = igen']
               /\ iidx' = [iidx EXCEPT ![c] = 0]
               /\ IF ~(0 < Len(iall[c]))
                  THEN IniWriteMarker(c, wok)
                  ELSE /\ ipc' = [ipc EXCEPT ![c] = "upsert"]
                       /\ UNCHANGED imarker
    /\ UNCHANGED <<iserver, icollection, icount, ioff, iall, iret, ilaunched,
                   ideleted, nonIniVars>>

\* await newCol.upsert(...)
IniUpsert(c) ==
    /\ ipc[c] = "upsert"
    /\ \E ok \in {b \in BOOLEAN : b => Live(c)}, wok \in BOOLEAN :
          IF ~ok THEN IniCatch(c) /\ UNCHANGED <<imarker, icoll, iidx>>
          ELSE LET end == Min(iidx[c] + BATCH, Len(iall[c])) IN
               /\ icoll' = [icoll EXCEPT !.recs =
                               UpsertAll(@, Slice(iall[c], iidx[c], end))]
               /\ iidx' = [iidx EXCEPT ![c] = @ + BATCH]
               /\ IF ~(iidx'[c] < Len(iall[c]))
                  THEN IniWriteMarker(c, wok)
                  ELSE /\ ipc' = [ipc EXCEPT ![c] = "upsert"]
                       /\ UNCHANGED imarker
    /\ UNCHANGED <<iserver, igen, icollection, icol, icount, ioff, iall, iret,
                   ilaunched, ideleted, nonIniVars>>

\* await client.getOrCreateCollection(...) of initChroma: the handle is put
\* in _collection and returned; a rejection leaves initChroma.
IniGoc(c) ==
    /\ ipc[c] = "goc"
    /\ \E ok \in BOOLEAN :
          IF ~ok
          THEN /\ ipc' = [ipc EXCEPT ![c] = "threw"]
               /\ UNCHANGED <<icoll, igen, icollection, iret>>
          ELSE /\ icoll' = GetOrCreate(icoll, InitGocSpace)
               /\ igen' = GenAfterCreate
               /\ icollection' = [obj |-> c, gen |-> igen']
               /\ iret' = [iret EXCEPT ![c] = icollection']
               /\ ipc' = [ipc EXCEPT ![c] = "returned"]
    /\ UNCHANGED <<iserver, imarker, icol, icount, ioff, iall, iidx,
                   ilaunched, ideleted, nonIniVars>>

NextIni ==
    \/ ChildServes
    \/ \E c \in Callers :
          \/ IniCall(c)
          \/ IniProbe(c)
          \/ IniPoll(c)
          \/ IniList(c)
          \/ IniGetCol(c)
          \/ IniCount(c)
          \/ IniDelEmpty(c)
          \/ IniRead(c)
          \/ IniDelete(c)
          \/ IniCreate(c)
          \/ IniUpsert(c)
          \/ IniGoc(c)

SpecIni == InitIni /\ [][NextIni]_vars

(***************************************************************************)
(* Claims about initChroma called twice.                                   *)
(***************************************************************************)

\* The sidecar is spawned at most once.
OneLaunch == ilaunched[1] + ilaunched[2] <= 1

\* The collection is deleted for its re-creation at most once.
OneMigration == ideleted[1] + ideleted[2] <= 1

\* The calls that have returned have returned one handle.
OneHandle ==
    \A c, d \in Callers :
       (ipc[c] = "returned" /\ ipc[d] = "returned") => iret[c] = iret[d]

\* A call made after another has returned is given the handle in
\* _collection and launches and migrates nothing.
CachedAfterReturn ==
    [][\A c \in Callers :
          (ipc[c] = "idle" /\ ipc'[c] # "idle" /\ icollection # NoHandle)
             => /\ ipc'[c] = "returned"
                /\ iret'[c] = icollection
                /\ icollection' = icollection
                /\ icoll' = icoll]_vars

\* C35: over every interleaving of the initChroma calls of one process,
\* the sidecar is launched at most once, the delete / recreate / re-insert
\* sequence of the migration is run at most once, and every call returns
\* the same collection handle.
C35_InitOnce ==
    /\ OneLaunch
    /\ OneMigration
    /\ OneHandle

====
